---------------------------- MODULE Spec2Model ----------------------------
(***************************************************************************)
(* CodeMaster Pro: the text-location and splice engine (CodeManipulator),  *)
(* the CSS rule extractor, the external-resource extractor and the         *)
(* Prefetch workshop's apply action.                                       *)
(*                                                                         *)
(* A JavaScript string is a sequence of one-character strings, so that     *)
(* split, join, slice, indexOf and the regular expressions of the source   *)
(* are computed character by character.  Line and column numbers are       *)
(* 0-based as in the source; TLA+ sequences are 1-based, hence the +1 at   *)
(* every index.                                                            *)
(***************************************************************************)
EXTENDS Integers, Sequences, FiniteSets, TLC

VARIABLES
    code,       \* the string the operation under study is applied to
    op,         \* the operation last called ("new" after construction)
    args,       \* its arguments
    ret,        \* what it returned
    files,              \* the project files (ProjectFile[]), props of the workshops
    selectedResources,  \* PrefetchWorkshop state: the selected URLs
    manualResources,    \* PrefetchWorkshop state: the resources added by hand
    detectedResources,  \* PrefetchWorkshop memo: the resources found in the files
    sent                \* the messages passed to sendMessage, in order

vars ==
    <<code, op, args, ret, files, selectedResources, manualResources,
      detectedResources, sent>>

(***************************************************************************)
(* Bounds of the model.                                                    *)
(***************************************************************************)
MaxLines == 3
MaxOps == 2

(***************************************************************************)
(* JavaScript string and array primitives.                                 *)
(***************************************************************************)
Min(a, b) == IF a < b THEN a ELSE b

Max(a, b) == IF a > b THEN a ELSE b

\* null, as returned by findHtmlHead and findCSSRule
Null == [null |-> TRUE]

\* the regular expression class \s, over the characters the model uses
IsWs(c) == c \in {" ", "\t", "\n", "\r"}

UpperCase ==
    <<"A", "B", "C", "D", "E", "F", "G", "H", "I", "J", "K", "L", "M",
      "N", "O", "P", "Q", "R", "S", "T", "U", "V", "W", "X", "Y", "Z">>

LowerCase ==
    <<"a", "b", "c", "d", "e", "f", "g", "h", "i", "j", "k", "l", "m",
      "n", "o", "p", "q", "r", "s", "t", "u", "v", "w", "x", "y", "z">>

Folded == [c \in {UpperCase[k] : k \in 1..26} |->
              LowerCase[CHOOSE k \in 1..26 : UpperCase[k] = c]]

\* case folding of the regular expression flag i
Lower(c) == IF c \in DOMAIN Folded THEN Folded[c] ELSE c

\* String.prototype.slice(a, b) and Array.prototype.slice(a, b), 0 <= a, b
slice(s, a, b) == SubSeq(s, Min(a, Len(s)) + 1, Min(b, Len(s)))

\* String.prototype.slice(a)
sliceFrom(s, a) == SubSeq(s, Min(a, Len(s)) + 1, Len(s))

RECURSIVE split(_)
\* s.split('\n')
split(s) ==
    LET breaks == {i \in 1..Len(s) : s[i] = "\n"}
    IN  IF breaks = {} THEN <<s>>
        ELSE LET i == CHOOSE x \in breaks : \A y \in breaks : x <= y
             IN  <<SubSeq(s, 1, i - 1)>> \o split(SubSeq(s, i + 1, Len(s)))

RECURSIVE join(_)
\* lines.join('\n')
join(ls) ==
    IF Len(ls) = 0 THEN <<>>
    ELSE IF Len(ls) = 1 THEN ls[1]
    ELSE ls[1] \o <<"\n">> \o join(Tail(ls))

\* (s.match(/c/g) || []).length for a one-character pattern c
CountChar(s, c) == Cardinality({i \in 1..Len(s) : s[i] = c})

\* s.startsWith(pat, i), i 0-based
StartsWithAt(s, i, pat) ==
    /\ i + Len(pat) <= Len(s)
    /\ \A k \in 1..Len(pat) : s[i + k] = pat[k]

\* the same, ignoring case (flag i)
StartsWithAtI(s, i, pat) ==
    /\ i + Len(pat) <= Len(s)
    /\ \A k \in 1..Len(pat) : Lower(s[i + k]) = Lower(pat[k])

\* s.includes(pat)
Includes(s, pat) == \E i \in 0..Len(s) : StartsWithAt(s, i, pat)

\* Array.prototype.splice(start, deleteCount, ...items) on a copy
splice(arr, start, deleteCount, items) ==
    LET st == Min(start, Len(arr))
        dc == Min(Max(deleteCount, 0), Len(arr) - st)
    IN  SubSeq(arr, 1, st) \o items \o SubSeq(arr, st + dc + 1, Len(arr))

\* the longest prefix of whitespace: line.match(/^(\s*)/)[1]
RECURSIVE LeadingWs(_)
LeadingWs(s) ==
    IF Len(s) > 0 /\ IsWs(s[1]) THEN <<s[1]>> \o LeadingWs(Tail(s)) ELSE <<>>

(***************************************************************************)
(* CodeManipulator.  The object holds lines = code.split('\n') and         *)
(* original = code; below every method takes the constructor's argument.   *)
(***************************************************************************)
CodeLocation(sl, el, sc, ec, c) ==
    [startLine |-> sl, endLine |-> el, startCol |-> sc, endCol |-> ec,
     content |-> c]

\* selectorRegex.test(line): /^\s*<selector, escaped>\s*\{/i
selectorRegexTest(selector, line) ==
    \E i \in 0..Len(line) :
        /\ \A k \in 1..i : IsWs(line[k])
        /\ StartsWithAtI(line, i, selector)
        /\ \E j \in (i + Len(selector))..(Len(line) - 1) :
              /\ \A k \in (i + Len(selector) + 1)..j : IsWs(line[k])
              /\ line[j + 1] = "{"

\* ruleStart === null
NoRule == -1

RECURSIVE findCSSRuleLoop(_, _, _, _, _)
findCSSRuleLoop(lines, selector, i, ruleStart, braceCount) ==
    IF i >= Len(lines) THEN Null
    ELSE
      LET line == lines[i + 1]
          delta == CountChar(line, "{") - CountChar(line, "}")
      IN  IF selectorRegexTest(selector, line) /\ ruleStart = NoRule
          THEN IF delta = 0
               THEN CodeLocation(i, i, 0, Len(line), line)
               ELSE findCSSRuleLoop(lines, selector, i + 1, i, delta)
          ELSE IF ruleStart # NoRule
          THEN IF braceCount + delta = 0
               THEN CodeLocation(ruleStart, i, 0, Len(line),
                                 join(SubSeq(lines, ruleStart + 1, i + 1)))
               ELSE findCSSRuleLoop(lines, selector, i + 1, ruleStart,
                                    braceCount + delta)
          ELSE findCSSRuleLoop(lines, selector, i + 1, ruleStart, braceCount)

\* a variant that hands back a best-effort span, up to the last line, for a rule
\* that is never closed
findCSSRuleBestEffort(c, selector) ==
    LET lines == split(c)
        found == findCSSRuleLoop(lines, selector, 0, NoRule, 0)
        opening == {i \in 0..(Len(lines) - 1) : selectorRegexTest(selector, lines[i + 1])}
    IN  IF found = Null /\ opening # {}
        THEN LET s == CHOOSE i \in opening : \A j \in opening : i <= j
             IN  CodeLocation(s, Len(lines) - 1, 0, Len(lines[Len(lines)]),
                              join(SubSeq(lines, s + 1, Len(lines))))
        ELSE found

findCSSRule(c, selector) == findCSSRuleLoop(split(c), selector, 0, NoRule, 0)

\* this.lines[lineNumber] || ''
LineOrEmpty(lines, n) == IF n >= 0 /\ n < Len(lines) THEN lines[n + 1] ELSE <<>>

\* contextLine.match(/^(\s*)/)?.[1] || '  '
ContextIndent(lines, lineNumber) ==
    LET ws == LeadingWs(LineOrEmpty(lines, lineNumber))
    IN  IF ws = <<>> THEN <<" ", " ">> ELSE ws

getIndentedContent(c, content, lineNumber) ==
    LET indent == ContextIndent(split(c), lineNumber)
        cl == split(content)
    IN  join([k \in 1..Len(cl) |-> IF k = 1 THEN cl[k] ELSE indent \o cl[k]])

\* a variant that reindents the content whatever the flag says
insertAtLocationReindenting(c, location, content, indent) ==
    LET lines == split(c)
        insertContent == getIndentedContent(c, content, location.startLine)
    IN  IF location.startLine = location.endLine
        THEN LET line == lines[location.startLine + 1]
             IN  join([lines EXCEPT ![location.startLine + 1] =
                          slice(line, 0, location.startCol) \o insertContent
                          \o sliceFrom(line, location.endCol)])
        ELSE join(splice(lines, location.startLine,
                         location.endLine - location.startLine + 1,
                         split(insertContent)))

insertAtLocation(c, location, content, indent) ==
    LET lines == split(c)
        insertContent ==
            IF indent THEN getIndentedContent(c, content, location.startLine)
            ELSE content
    IN  IF location.startLine = location.endLine
        THEN LET line == lines[location.startLine + 1]
             IN  join([lines EXCEPT ![location.startLine + 1] =
                          slice(line, 0, location.startCol) \o insertContent
                          \o sliceFrom(line, location.endCol)])
        ELSE join(splice(lines, location.startLine,
                         location.endLine - location.startLine + 1,
                         split(insertContent)))

replaceAtLocation(c, location, newContent) ==
    LET lines == split(c)
        contentLines ==
            split(getIndentedContent(c, newContent, location.startLine))
    IN  join(splice(lines, location.startLine,
                    location.endLine - location.startLine + 1, contentLines))

\* a variant whose single-line branch treats endCol as inclusive
deleteAtLocationInclusive(c, location) ==
    LET lines == split(c)
    IN  IF location.startLine = location.endLine
        THEN LET line == lines[location.startLine + 1]
             IN  join([lines EXCEPT ![location.startLine + 1] =
                          slice(line, 0, location.startCol)
                          \o sliceFrom(line, location.endCol + 1)])
        ELSE join(splice(lines, location.startLine,
                         location.endLine - location.startLine + 1,
                         <<slice(lines[location.startLine + 1], 0, location.startCol)
                           \o sliceFrom(lines[location.endLine + 1], location.endCol)>>))

\* a variant whose multi-line branch leaves the two remainders on separate lines
deleteAtLocationKeepLines(c, location) ==
    LET lines == split(c)
    IN  IF location.startLine = location.endLine
        THEN LET line == lines[location.startLine + 1]
             IN  join([lines EXCEPT ![location.startLine + 1] =
                          slice(line, 0, location.startCol)
                          \o sliceFrom(line, location.endCol)])
        ELSE join(splice(lines, location.startLine,
                         location.endLine - location.startLine + 1,
                         <<slice(lines[location.startLine + 1], 0, location.startCol),
                           sliceFrom(lines[location.endLine + 1], location.endCol)>>))

deleteAtLocation(c, location) ==
    LET lines == split(c)
    IN  IF location.startLine = location.endLine
        THEN LET line == lines[location.startLine + 1]
             IN  join([lines EXCEPT ![location.startLine + 1] =
                          slice(line, 0, location.startCol)
                          \o sliceFrom(line, location.endCol)])
        ELSE LET firstLine ==
                     slice(lines[location.startLine + 1], 0, location.startCol)
                 lastLine ==
                     sliceFrom(lines[location.endLine + 1], location.endCol)
             IN  join(splice(lines, location.startLine,
                             location.endLine - location.startLine + 1,
                             <<firstLine \o lastLine>>))

\* a variant comparator that sorts ascending
compareChangesAscending(a, b) == a.location.startLine - b.location.startLine

\* the comparator of changes.sort: b.location.startLine - a.location.startLine
compareChanges(a, b) == b.location.startLine - a.location.startLine

\* Array.prototype.sort, which is stable: x goes after every element that the
\* comparator does not place behind it
sortInsert(sorted, x) ==
    LET k == Cardinality({i \in 1..Len(sorted) : compareChanges(sorted[i], x) <= 0})
    IN  SubSeq(sorted, 1, k) \o <<x>> \o SubSeq(sorted, k + 1, Len(sorted))

RECURSIVE sortChanges(_)
sortChanges(changes) ==
    IF Len(changes) = 0 THEN <<>>
    ELSE sortInsert(sortChanges(SubSeq(changes, 1, Len(changes) - 1)),
                    changes[Len(changes)])

\* one turn of the loop of applyChanges: new CodeManipulator(result), then the switch
applyChange(result, change) ==
    CASE change.type = "insert" ->
            insertAtLocation(result, change.location, change.newContent, TRUE)
      [] change.type = "replace" ->
            replaceAtLocation(result, change.location, change.newContent)
      [] change.type = "delete" ->
            deleteAtLocation(result, change.location)
      [] change.type = "append" ->
            insertAtLocation(result,
                             [change.location EXCEPT !.startCol = change.location.endCol],
                             change.newContent, TRUE)
      [] OTHER -> result

RECURSIVE applyAll(_, _)
applyAll(result, sortedChanges) ==
    IF Len(sortedChanges) = 0 THEN result
    ELSE applyAll(applyChange(result, Head(sortedChanges)), Tail(sortedChanges))

applyChanges(c, changes) == applyAll(c, sortChanges(changes))

(***************************************************************************)
(* Inputs of the splice engine.                                            *)
(***************************************************************************)
\* the lines CSS buffers are made of: "a {", " b", "}", "a {b}", " A{", "b { "
CssLines ==
    { <<"a", " ", "{">>, <<" ", "b">>, <<"}">>, <<"a", " ", "{", "b", "}">>,
      <<" ", "A", "{">>, <<"b", " ", "{", " ">> }

\* the selectors looked up
Selectors == { <<"a">>, <<"b">> }

RECURSIVE SeqsUpTo(_, _)
\* the sequences over S of length 1..n
SeqsUpTo(S, n) ==
    IF n = 0 THEN {}
    ELSE LET shorter == SeqsUpTo(S, n - 1)
         IN  {<<x>> : x \in S} \cup shorter
             \cup {Append(q, x) : q \in {r \in shorter : Len(r) = n - 1}, x \in S}

CssBuffers == {join(ls) : ls \in SeqsUpTo(CssLines, MaxLines)}

\* the spans findCSSRule returns on c
FoundLocations(c) == {findCSSRule(c, s) : s \in Selectors} \ {Null}

\* the new texts handed to replaceAtLocation and insertAtLocation: "x", "x\ny", ""
NewContents == { <<"x">>, <<"x", "\n", "y">>, <<>> }

NoFiles == <<>>

WorkshopIdle ==
    /\ files = NoFiles
    /\ selectedResources = <<>>
    /\ manualResources = <<>>
    /\ detectedResources = <<>>
    /\ sent = <<>>

workshopVars == <<files, selectedResources, manualResources, detectedResources, sent>>

(***************************************************************************)
(* SpecSplice: one CodeManipulator built over a CSS buffer, and one call   *)
(* of a method on it (the object is immutable: a call returns a string or  *)
(* a span and leaves lines and original as they are).                      *)
(***************************************************************************)
InitSplice ==
    /\ code \in CssBuffers
    /\ op = "new"
    /\ args = <<>>
    /\ ret = <<>>
    /\ WorkshopIdle

FindCSSRule ==
    /\ op = "new"
    /\ \E selector \in Selectors :
        /\ op' = "findCSSRule"
        /\ args' = [selector |-> selector]
        /\ ret' = findCSSRule(code, selector)
        /\ UNCHANGED <<code, workshopVars>>

\* CSSWorkshop.handleApplyChanges: findCSSRule, then replaceAtLocation at the
\* span found, with the rule's own text or with an edited text
ReplaceAtLocation ==
    /\ op = "new"
    /\ \E location \in FoundLocations(code) :
        \E newContent \in NewContents \cup {location.content} :
            /\ op' = "replaceAtLocation"
            /\ args' = [location |-> location, newContent |-> newContent]
            /\ ret' = replaceAtLocation(code, location, newContent)
            /\ UNCHANGED <<code, workshopVars>>

NextSplice == FindCSSRule \/ ReplaceAtLocation

SpecSplice == InitSplice /\ [][NextSplice]_vars

(***************************************************************************)
(* SpecBatch: applyChanges over a batch of changes whose line ranges are   *)
(* pairwise disjoint, in every input order.                                *)
(***************************************************************************)
\* the lines batch buffers are made of: "ab", " c"
BatchLines == { <<"a", "b">>, <<" ", "c">> }

BatchBuffers == {join(ls) : ls \in SeqsUpTo(BatchLines, MaxLines)}

\* spans over the lines of c: every line range, with the columns that the
\* operation reads (replace and multi-line insert read none; the lines are two
\* characters long)
BatchLocations(c, type) ==
    LET n == Len(split(c))
    IN  { l \in [startLine : 0..(n - 1), endLine : 0..(n - 1), startCol : 0..1,
                 endCol : 1..2, content : {<<>>}] :
            /\ l.startLine <= l.endLine
            /\ type = "delete" => (l.endCol = l.startCol + 1)
            /\ type = "replace" => (l.startCol = 0 /\ l.endCol = 2)
            /\ (type = "insert" /\ l.startLine # l.endLine)
                  => (l.startCol = 0 /\ l.endCol = 2)
            /\ (type = "insert" /\ l.startLine = l.endLine)
                  => (l.startCol = 1 /\ l.endCol = 1) }

BatchChanges(c) ==
    { [type |-> "delete", location |-> l, newContent |-> <<>>] :
        l \in BatchLocations(c, "delete") }
    \cup
    { [type |-> "insert", location |-> l, newContent |-> <<"x", "\n", "y">>] :
        l \in BatchLocations(c, "insert") }
    \cup
    { [type |-> "replace", location |-> l, newContent |-> nc] :
        l \in BatchLocations(c, "replace"),
        nc \in { <<>>, <<"x", "\n", "y">> } }

\* the line ranges of two changes do not meet
Disjoint(a, b) ==
    \/ a.location.endLine < b.location.startLine
    \/ b.location.endLine < a.location.startLine

PairwiseDisjoint(changes) ==
    \A i, j \in 1..Len(changes) : i # j => Disjoint(changes[i], changes[j])

RECURSIVE BatchesOfLen(_, _)
\* the input lists of n changes over C with pairwise disjoint line ranges
BatchesOfLen(C, n) ==
    IF n = 0 THEN {<<>>}
    ELSE UNION { {Append(b, x) :
                    x \in {y \in C : \A i \in 1..Len(b) : Disjoint(b[i], y)}} :
                 b \in BatchesOfLen(C, n - 1) }

Batches(c) ==
    UNION {BatchesOfLen(BatchChanges(c), n) : n \in 1..MaxOps}

InitBatch ==
    /\ code \in BatchBuffers
    /\ op = "new"
    /\ args = <<>>
    /\ ret = <<>>
    /\ WorkshopIdle

ApplyChanges ==
    /\ op = "new"
    /\ \E changes \in Batches(code) :
        /\ op' = "applyChanges"
        /\ args' = [changes |-> changes]
        /\ ret' = applyChanges(code, changes)
        /\ UNCHANGED <<code, workshopVars>>

NextBatch == ApplyChanges

SpecBatch == InitBatch /\ [][NextBatch]_vars

(***************************************************************************)
(* Claims about the splice engine.                                         *)
(***************************************************************************)
RECURSIVE TrimEnd(_)
\* a line without its trailing whitespace
TrimEnd(s) ==
    IF Len(s) > 0 /\ IsWs(s[Len(s)]) THEN TrimEnd(SubSeq(s, 1, Len(s) - 1)) ELSE s

\* two texts that differ at most in whitespace at the ends of their lines
SameUpToTrailingWs(s, t) ==
    LET ls == split(s)
        lt == split(t)
    IN  /\ Len(ls) = Len(lt)
        /\ \A k \in 1..Len(ls) : TrimEnd(ls[k]) = TrimEnd(lt[k])

\* a span replaced by its own content
IsRoundTrip ==
    /\ op = "replaceAtLocation"
    /\ args.newContent = args.location.content

\* C1: replacing a span found by findCSSRule with its own content returns the
\* buffer, up to whitespace at the ends of lines.
C1_RoundTrip == IsRoundTrip => SameUpToTrailingWs(ret, code)

\* the lines of c that match the selector's opening pattern
OpeningLines(c, selector) ==
    LET lines == split(c)
    IN  {i \in 0..(Len(lines) - 1) : selectorRegexTest(selector, lines[i + 1])}

\* '{' count minus '}' count over the raw lines s..k of c
DepthOver(c, s, k) ==
    LET text == join(SubSeq(split(c), s + 1, k + 1))
    IN  CountChar(text, "{") - CountChar(text, "}")

\* the lines at or after s at which the depth of a rule opened at s is zero
ClosingLines(c, s) ==
    {k \in s..(Len(split(c)) - 1) : DepthOver(c, s, k) = 0}

Least(S) == CHOOSE x \in S : \A y \in S : x <= y

\* C10: findCSSRule returns the span from the first line that opens the selector
\* to the first line at which the brace depth, summed over the raw lines from
\* the opening line on, is zero, with the joined lines as content; it returns
\* null when no line opens the selector or the depth never returns to zero.
C10_FindCSSRule ==
    op = "findCSSRule" =>
        LET opening == OpeningLines(code, args.selector)
        IN  IF opening = {} THEN ret = Null
            ELSE LET s == Least(opening)
                     closing == ClosingLines(code, s)
                 IN  IF closing = {} THEN ret = Null
                     ELSE /\ ret # Null
                          /\ ret.startLine = s
                          /\ ret.endLine = Least(closing)
                          /\ ret.startLine <= ret.endLine
                          /\ ret.content =
                                join(SubSeq(split(code), s + 1, Least(closing) + 1))

\* a multi-line span is returned although a later line opens the same selector
C10_Witness ==
    /\ op = "findCSSRule"
    /\ ret # Null
    /\ ret.startLine < ret.endLine
    /\ \E i \in OpeningLines(code, args.selector) : i > ret.endLine

(***************************************************************************)
(* Claims about applyChanges.                                              *)
(***************************************************************************)
IsSingleLineDelete(ch) ==
    /\ ch.type = "delete"
    /\ ch.location.startLine = ch.location.endLine

\* every input order of the same changes
InputOrders(changes) ==
    BatchesOfLen({changes[k] : k \in 1..Len(changes)}, Len(changes))

\* line without its characters [sc, ec), for 0 <= sc <= ec <= Len(line)
Cut(line, sc, ec) ==
    [k \in 1..(Len(line) - (ec - sc)) |->
        IF k <= sc THEN line[k] ELSE line[k + (ec - sc)]]

\* the buffer with the targeted columns of each targeted line removed
DeletedColumns(c, changes) ==
    LET lines == split(c)
        target(i) == {k \in 1..Len(changes) : changes[k].location.startLine = i}
    IN  join([i \in 1..Len(lines) |->
                IF target(i - 1) = {} THEN lines[i]
                ELSE LET ch == changes[CHOOSE k \in target(i - 1) : TRUE]
                     IN  Cut(lines[i], ch.location.startCol, ch.location.endCol)])

IsDeleteBatch ==
    /\ op = "applyChanges"
    /\ \A k \in 1..Len(args.changes) : IsSingleLineDelete(args.changes[k])

\* C2: single-line deletes on pairwise distinct lines give, in every input
\* order, the buffer with exactly the columns [startCol, endCol) of each
\* targeted line removed.
C2_BatchNonInterference ==
    IsDeleteBatch =>
        /\ ret = DeletedColumns(code, args.changes)
        /\ \A p \in InputOrders(args.changes) : applyChanges(code, p) = ret

\* two deletes handed over lowest line first, both removing a character
C2_Witness ==
    /\ IsDeleteBatch
    /\ Len(args.changes) = MaxOps
    /\ args.changes[1].location.startLine < args.changes[2].location.startLine
    /\ Len(ret) = Len(code) - MaxOps

\* what change ch puts in place of the lines startLine..endLine of c: the
\* change applied to those lines alone
Piece(c, ch) ==
    LET lines == split(c)
        sl == ch.location.startLine
        el == ch.location.endLine
    IN  applyChange(join(SubSeq(lines, sl + 1, el + 1)),
                    [ch EXCEPT !.location.startLine = 0, !.location.endLine = el - sl])

RECURSIVE PiecesFrom(_, _, _)
\* from line i on: the untouched lines of c, and each change's piece in place
\* of its range
PiecesFrom(c, changes, i) ==
    LET lines == split(c)
        owner == {k \in 1..Len(changes) :
                    /\ changes[k].location.startLine <= i
                    /\ i <= changes[k].location.endLine}
    IN  IF i >= Len(lines) THEN <<>>
        ELSE IF owner = {} THEN <<lines[i + 1]>> \o PiecesFrom(c, changes, i + 1)
        ELSE LET ch == changes[CHOOSE k \in owner : TRUE]
             IN  <<Piece(c, ch)>> \o PiecesFrom(c, changes, ch.location.endLine + 1)

\* every edit performed at its coordinates in the original buffer
EditsAtOriginalCoordinates(c, changes) == join(PiecesFrom(c, changes, 0))

ChangesLineCount(ch) ==
    \/ ch.location.startLine # ch.location.endLine
    \/ (ch.type # "delete" /\ Len(split(ch.newContent)) > 1)

\* C3: applyChanges applies the changes in descending order of startLine, and
\* for insert, replace and delete changes with pairwise disjoint line ranges
\* the result is that of every edit made at its original coordinates.
C3_NoIndexDrift ==
    op = "applyChanges" =>
        LET sorted == sortChanges(args.changes)
        IN  /\ \A i, j \in 1..Len(sorted) :
                  i < j => sorted[i].location.startLine >= sorted[j].location.startLine
            /\ ret = EditsAtOriginalCoordinates(code, args.changes)

\* two changes handed over lowest line first, each changing the number of lines
C3_Witness ==
    /\ op = "applyChanges"
    /\ Len(args.changes) = MaxOps
    /\ args.changes[1].location.startLine < args.changes[2].location.startLine
    /\ \A k \in 1..MaxOps : ChangesLineCount(args.changes[k])
    /\ Len(split(ret)) # Len(split(code))

(***************************************************************************)
(* CodeManipulator.findHtmlHead.                                           *)
(***************************************************************************)
S_headOpen == <<"<", "h", "e", "a", "d">>

S_headClose == <<"<", "/", "h", "e", "a", "d", ">">>

\* line.match(/<head[^>]*>/i) is not null
headStartRegexTest(line) ==
    \E i \in 0..Len(line) :
        /\ StartsWithAtI(line, i, S_headOpen)
        /\ \E j \in (i + Len(S_headOpen) + 1)..Len(line) : line[j] = ">"

\* line.match(/<\/head>/i) is not null
headEndRegexTest(line) == \E i \in 0..Len(line) : StartsWithAtI(line, i, S_headClose)

RECURSIVE findHtmlHeadAnyCloseLoop(_, _)
\* a variant that takes the first </head> line whether or not <head> came first
findHtmlHeadAnyCloseLoop(lines, i) ==
    IF i >= Len(lines) THEN Null
    ELSE IF headEndRegexTest(lines[i + 1]) THEN CodeLocation(i, i, 0, 0, <<>>)
    ELSE findHtmlHeadAnyCloseLoop(lines, i + 1)

findHtmlHeadAnyClose(c) == findHtmlHeadAnyCloseLoop(split(c), 0)

RECURSIVE findHtmlHeadLoop(_, _, _)
\* the for loop; headStart is TRUE once a <head ...> line has been seen
findHtmlHeadLoop(lines, i, headStart) ==
    IF i >= Len(lines) THEN Null
    ELSE LET line == lines[i + 1]
             started == headStart \/ headStartRegexTest(line)
         IN  IF headEndRegexTest(line) /\ started
             THEN CodeLocation(i, i, 0, 0, <<>>)
             ELSE findHtmlHeadLoop(lines, i + 1, started)

findHtmlHead(c) == findHtmlHeadLoop(split(c), 0, FALSE)

(***************************************************************************)
(* SpecHead: findHtmlHead over HTML buffers.                               *)
(***************************************************************************)
\* the lines HTML buffers are made of:
\* "<head>", "</head>", "<p>", "<head", "<Head></HEAD>"
HtmlLines ==
    { <<"<", "h", "e", "a", "d", ">">>,
      <<"<", "/", "h", "e", "a", "d", ">">>,
      <<"<", "p", ">">>,
      <<"<", "h", "e", "a", "d">>,
      <<"<", "H", "e", "a", "d", ">", "<", "/", "H", "E", "A", "D", ">">> }

HtmlBuffers == {join(ls) : ls \in SeqsUpTo(HtmlLines, MaxLines)}

InitHead ==
    /\ code \in HtmlBuffers
    /\ op = "new"
    /\ args = <<>>
    /\ ret = <<>>
    /\ WorkshopIdle

FindHtmlHead ==
    /\ op = "new"
    /\ op' = "findHtmlHead"
    /\ args' = <<>>
    /\ ret' = findHtmlHead(code)
    /\ UNCHANGED <<code, workshopVars>>

\* the content handleApplyAll inserts has this shape: a line break, the
\* tags, a line break
HeadContents == { <<"\n", "<", "l", ">", "\n">>, <<"<", "l", ">">> }

\* manipulator.insertAtLocation(headLocation, insertContent, false) on the
\* span findHtmlHead returned
InsertAtHead ==
    /\ op = "findHtmlHead"
    /\ ret # Null
    /\ \E content \in HeadContents :
          /\ args' = <<ret, content>>
          /\ ret' = insertAtLocation(code, ret, content, FALSE)
    /\ op' = "insertAtLocation"
    /\ UNCHANGED <<code, workshopVars>>

NextHead == FindHtmlHead \/ InsertAtHead

SpecHead == InitHead /\ [][NextHead]_vars

\* the lines of c that contain a <head ...> opening tag
HeadOpenLines(c) ==
    LET lines == split(c)
    IN  {i \in 0..(Len(lines) - 1) : headStartRegexTest(lines[i + 1])}

\* the lines of c at or after line s that contain </head>
HeadCloseLinesFrom(c, s) ==
    LET lines == split(c)
    IN  {i \in s..(Len(lines) - 1) : headEndRegexTest(lines[i + 1])}

\* C9: findHtmlHead returns the zero-width span at column 0 of the first line
\* containing </head> at or after the first line containing a <head ...>
\* opening tag, and null when there is no opening tag or no </head> at or
\* after it.
C9_FindHtmlHead ==
    op = "findHtmlHead" =>
        IF HeadOpenLines(code) = {} THEN ret = Null
        ELSE LET closing == HeadCloseLinesFrom(code, Least(HeadOpenLines(code)))
             IN  IF closing = {} THEN ret = Null
                 ELSE ret = CodeLocation(Least(closing), Least(closing), 0, 0, <<>>)

\* a span is returned on a buffer that also holds a </head> before the opening tag
C9_Witness ==
    /\ op = "findHtmlHead"
    /\ ret # Null
    /\ \E i \in 0..(ret.startLine - 1) :
          /\ headEndRegexTest(split(code)[i + 1])
          /\ i < Least(HeadOpenLines(code))

\* the offsets just after a <head ...> opening tag of s
HeadOpenEnds(s) ==
    {e \in 1..Len(s) :
        /\ s[e] = ">"
        /\ \E i \in 0..(e - Len(S_headOpen) - 1) :
              /\ StartsWithAtI(s, i, S_headOpen)
              /\ \A k \in (i + Len(S_headOpen) + 1)..(e - 1) : s[k] # ">"}

\* content stands in s after an opening <head ...> tag and right before </head>
InsideHead(s, content) ==
    \E p \in 0..Len(s) :
        /\ StartsWithAt(s, p, content)
        /\ StartsWithAtI(s, p + Len(content), S_headClose)
        /\ \E e \in HeadOpenEnds(s) : e <= p

\* C23: on every buffer on which findHtmlHead returns a span, the content
\* inserted by insertAtLocation at that span stands after the <head ...>
\* opening tag and immediately before the </head> closing tag, also when the
\* opening tag shares the line of </head>.
C23_InsideHead ==
    op = "insertAtLocation" => InsideHead(ret, args[2])

(***************************************************************************)
(* analyzeExternalResources: the regular expressions.  A match is          *)
(* [end |-> offset after the match, url |-> match[1] || match[0]]; every   *)
(* operator below gives the match that starts at offset i, or Null.        *)
(***************************************************************************)
Quotes == {"\"", "'"}

WsChars == {" ", "\t", "\n"}

\* the character at offset j, "" past the end
CharAt(s, j) == IF j >= 0 /\ j < Len(s) THEN s[j + 1] ELSE ""

\* the end of the longest run, from offset j, of characters outside stop
RunEnd(s, j, stop) ==
    CHOOSE e \in j..Len(s) :
        /\ e = Len(s) \/ s[e + 1] \in stop
        /\ \A k \in (j + 1)..e : s[k] \notin stop

\* the end of the longest run of whitespace from offset j
SkipWs(s, j) ==
    CHOOSE e \in j..Len(s) :
        /\ e = Len(s) \/ ~IsWs(s[e + 1])
        /\ \A k \in (j + 1)..e : IsWs(s[k])

Match(e, u) == [end |-> e, url |-> u]

S_src == <<"s", "r", "c">>

S_href == <<"h", "r", "e", "f">>

S_url == <<"u", "r", "l">>

\* /(?:src|href|url)\s*=\s*["']([^"'\s]+)["']/gi
attrRegexAt(s, i) ==
    LET kws == {k \in {S_src, S_href, S_url} : StartsWithAtI(s, i, k)}
    IN  IF kws = {} THEN Null
        ELSE
          LET kw == CHOOSE k \in kws : TRUE
              a == SkipWs(s, i + Len(kw))
              b == SkipWs(s, a + 1)
              r == RunEnd(s, b + 1, Quotes \cup WsChars)
          IN  IF CharAt(s, a) # "=" THEN Null
              ELSE IF CharAt(s, b) \notin Quotes THEN Null
              ELSE IF r = b + 1 \/ CharAt(s, r) \notin Quotes THEN Null
              ELSE Match(r + 1, SubSeq(s, b + 2, r))

S_urlParen == <<"u", "r", "l", "(">>

\* /url\(["']?([^"'\)\s]+)["']?\)/gi
cssUrlRegexAt(s, i) ==
    IF ~StartsWithAtI(s, i, S_urlParen) THEN Null
    ELSE
      LET j == i + Len(S_urlParen)
          q == IF CharAt(s, j) \in Quotes THEN j + 1 ELSE j
          r == RunEnd(s, q, Quotes \cup WsChars \cup {")"})
          t == IF CharAt(s, r) \in Quotes THEN r + 1 ELSE r
      IN  IF q > Len(s) \/ r = q THEN Null
          ELSE IF CharAt(s, t) # ")" THEN Null
          ELSE Match(t + 1, SubSeq(s, q + 1, r))

S_http == <<"h", "t", "t", "p">>

S_colonSlashes == <<":", "/", "/">>

\* /https?:\/\/[^\s"'<>\)\}]+/gi
httpRegexAt(s, i) ==
    IF ~StartsWithAtI(s, i, S_http) THEN Null
    ELSE
      LET j == i + Len(S_http)
          k == IF Lower(CharAt(s, j)) = "s" THEN j + 1 ELSE j
          r == RunEnd(s, k + 3, Quotes \cup WsChars \cup {"<", ">", ")", "}"})
      IN  IF ~StartsWithAt(s, k, S_colonSlashes) THEN Null
          ELSE IF r = k + 3 THEN Null
          ELSE Match(r, SubSeq(s, i + 1, r))

S_import == <<"i", "m", "p", "o", "r", "t">>

S_from == <<"f", "r", "o", "m">>

\* the rest of the import pattern from the offset f of "from":
\* from\s+["']([^"']+)["']
fromClauseAt(s, f) ==
    IF ~StartsWithAtI(s, f, S_from) THEN Null
    ELSE
      LET g == SkipWs(s, f + Len(S_from))
          r == RunEnd(s, g + 1, Quotes)
      IN  IF g = f + Len(S_from) \/ CharAt(s, g) \notin Quotes THEN Null
          ELSE IF r = g + 1 \/ CharAt(s, r) \notin Quotes THEN Null
          ELSE Match(r + 1, SubSeq(s, g + 2, r))

\* /import\s+[^\n]*from\s+["']([^"']+)["']/gi: \s+ and [^\n]* are greedy, so
\* the last "from" on the line that completes the pattern is taken
importRegexAt(s, i) ==
    IF ~StartsWithAtI(s, i, S_import) THEN Null
    ELSE
      LET w == SkipWs(s, i + Len(S_import))
          F == {f \in w..Len(s) :
                  /\ \A k \in (w + 1)..f : s[k] # "\n"
                  /\ fromClauseAt(s, f) # Null}
      IN  IF w = i + Len(S_import) \/ F = {} THEN Null
          ELSE fromClauseAt(s, CHOOSE f \in F : \A g \in F : g <= f)

S_atImport == <<"@", "i", "m", "p", "o", "r", "t">>

\* /@import\s+["']([^"']+)["']/gi
atImportRegexAt(s, i) ==
    IF ~StartsWithAtI(s, i, S_atImport) THEN Null
    ELSE
      LET w == SkipWs(s, i + Len(S_atImport))
          r == RunEnd(s, w + 1, Quotes)
      IN  IF w = i + Len(S_atImport) \/ CharAt(s, w) \notin Quotes THEN Null
          ELSE IF r = w + 1 \/ CharAt(s, r) \notin Quotes THEN Null
          ELSE Match(r + 1, SubSeq(s, w + 2, r))

S_link == <<"<", "l", "i", "n", "k">>

S_hrefEq == <<"h", "r", "e", "f", "=">>

\* the rest of the link pattern from the offset k of the whitespace before
\* href: \s(?:href)=["']([^"']+)["'][^>]*>
hrefClauseAt(s, k) ==
    IF ~(IsWs(CharAt(s, k)) /\ StartsWithAtI(s, k + 1, S_hrefEq)) THEN Null
    ELSE
      LET q == k + 1 + Len(S_hrefEq)
          r == RunEnd(s, q + 1, Quotes)
          e == RunEnd(s, r + 1, {">"})
      IN  IF CharAt(s, q) \notin Quotes THEN Null
          ELSE IF r = q + 1 \/ CharAt(s, r) \notin Quotes THEN Null
          ELSE IF e >= Len(s) THEN Null
          ELSE Match(e + 1, SubSeq(s, q + 2, r))

\* /<link[^>]*\s(?:href)=["']([^"']+)["'][^>]*>/gi: [^>]* is greedy, so the
\* last href of the tag that completes the pattern is taken
linkRegexAt(s, i) ==
    IF ~StartsWithAtI(s, i, S_link) THEN Null
    ELSE
      LET j == i + Len(S_link)
          K == {k \in j..Len(s) :
                  /\ \A m \in (j + 1)..k : s[m] # ">"
                  /\ hrefClauseAt(s, k) # Null}
      IN  IF K = {} THEN Null
          ELSE hrefClauseAt(s, CHOOSE k \in K : \A m \in K : m <= k)

\* the six entries of patterns, in order
NumPatterns == 6

patternAt(p, s, i) ==
    CASE p = 1 -> attrRegexAt(s, i)
      [] p = 2 -> cssUrlRegexAt(s, i)
      [] p = 3 -> httpRegexAt(s, i)
      [] p = 4 -> importRegexAt(s, i)
      [] p = 5 -> atImportRegexAt(s, i)
      [] p = 6 -> linkRegexAt(s, i)

RECURSIVE execAll(_, _, _)
\* while ((match = pattern.exec(content)) !== null): the URLs of the matches
\* of pattern p from lastIndex i on, leftmost first
execAll(p, s, i) ==
    LET starts == {k \in i..(Len(s) - 1) : patternAt(p, s, k) # Null}
    IN  IF starts = {} THEN <<>>
        ELSE LET m == patternAt(p, s, CHOOSE k \in starts : \A j \in starts : k <= j)
             IN  <<m.url>> \o execAll(p, s, m.end)

RECURSIVE matchedUrls(_, _)
\* patterns.forEach: the URLs matched, pattern by pattern from p on
matchedUrls(s, p) ==
    IF p > NumPatterns THEN <<>>
    ELSE execAll(p, s, 0) \o matchedUrls(s, p + 1)

(***************************************************************************)
(* analyzeExternalResources: the filter, the classification and the sort.  *)
(***************************************************************************)
\* /\.(e1|e2|...)$/i.test(url)
EndsWithExt(url, exts) ==
    \E e \in exts :
        /\ Len(url) >= Len(e) + 1
        /\ StartsWithAtI(url, Len(url) - Len(e), e)
        /\ url[Len(url) - Len(e)] = "."

IncludesAny(url, pats) == \E pat \in pats : Includes(url, pat)

FontDomains ==
    { <<"f", "o", "n", "t", "s", ".", "g", "o", "o", "g", "l", "e", "a", "p", "i", "s", ".", "c", "o", "m">>,
      <<"f", "o", "n", "t", "s", ".", "g", "s", "t", "a", "t", "i", "c", ".", "c", "o", "m">>,
      <<"t", "y", "p", "e", "k", "i", "t", ".", "n", "e", "t">>,
      <<"f", "o", "n", "t", "s", ".", "c", "o", "m">> }

FontExts == { <<"w", "o", "f", "f">>, <<"w", "o", "f", "f", "2">>,
              <<"t", "t", "f">>, <<"o", "t", "f">>, <<"e", "o", "t">> }

S_googleapis == <<"g", "o", "o", "g", "l", "e", "a", "p", "i", "s", ".", "c", "o", "m">>

S_fonts == <<"f", "o", "n", "t", "s">>

ApiMarks == { <<"a", "p", "i", ".">>, <<"/", "a", "p", "i", "/">>,
              <<"a", "j", "a", "x", ".">>, <<"r", "e", "s", "t", ".">>,
              <<"g", "r", "a", "p", "h", "q", "l", ".">> }

CdnMarks ==
    { <<"c", "d", "n", ".">>, <<"j", "s", "d", "e", "l", "i", "v", "r">>,
      <<"u", "n", "p", "k", "g">>, <<"c", "d", "n", "j", "s", ".">>,
      <<"b", "o", "o", "t", "s", "t", "r", "a", "p">>,
      <<"t", "a", "i", "l", "w", "i", "n", "d", "c", "s", "s">> }

ImageExts ==
    { <<"j", "p", "g">>, <<"j", "p", "e", "g">>, <<"p", "n", "g">>,
      <<"w", "e", "b", "p">>, <<"g", "i", "f">>, <<"s", "v", "g">>,
      <<"i", "c", "o">>, <<"b", "m", "p">> }

ScriptExts == { <<"j", "s">>, <<"c", "s", "s">>, <<"j", "s", "o", "n">> }

SocialMarks ==
    { <<"g", "o", "o", "g", "l", "e", "-", "a", "n", "a", "l", "y", "t", "i", "c", "s", ".", "c", "o", "m">>,
      <<"f", "a", "c", "e", "b", "o", "o", "k", ".", "c", "o", "m">>,
      <<"t", "w", "i", "t", "t", "e", "r", ".", "c", "o", "m">>,
      <<"y", "o", "u", "t", "u", "b", "e", ".", "c", "o", "m">>,
      <<"a", "n", "a", "l", "y", "t", "i", "c", "s", ".">>,
      <<"t", "r", "a", "c", "k", "i", "n", "g", ".">> }

Resource(u, t, r) == [url |-> u, type |-> t, recommendation |-> r]

\* the if / else if chain of lines 277-316
classify(url) ==
    IF IncludesAny(url, FontDomains) \/ EndsWithExt(url, FontExts)
    THEN Resource(url, "font", "preconnect")
    ELSE IF \/ IncludesAny(url, ApiMarks)
            \/ (Includes(url, S_googleapis) /\ ~Includes(url, S_fonts))
    THEN Resource(url, "api", "dns-prefetch")
    ELSE IF IncludesAny(url, CdnMarks) THEN Resource(url, "cdn", "prefetch")
    ELSE IF EndsWithExt(url, ImageExts) THEN Resource(url, "image", "prefetch")
    ELSE IF EndsWithExt(url, ScriptExts) THEN Resource(url, "script", "prefetch")
    ELSE IF IncludesAny(url, SocialMarks) THEN Resource(url, "api", "dns-prefetch")
    ELSE Resource(url, "cdn", "prefetch")

\* a variant of the filter without the uniqueUrls test
keepUrlNoDedup(url, uniqueUrls) == url # <<>> /\ StartsWithAt(url, 0, S_http)

\* url && url.startsWith('http') && !uniqueUrls.has(url)
keepUrl(url, uniqueUrls) ==
    /\ url # <<>>
    /\ StartsWithAt(url, 0, S_http)
    /\ url \notin uniqueUrls

RECURSIVE collect(_, _, _)
\* the matches taken in order: resources after the filter and the push
collect(urls, uniqueUrls, resources) ==
    IF Len(urls) = 0 THEN resources
    ELSE IF keepUrl(Head(urls), uniqueUrls)
    THEN collect(Tail(urls), uniqueUrls \cup {Head(urls)},
                 Append(resources, classify(Head(urls))))
    ELSE collect(Tail(urls), uniqueUrls, resources)

\* const order = { 'preconnect': 0, 'dns-prefetch': 1, 'prefetch': 2 }
order(recommendation) ==
    CASE recommendation = "preconnect" -> 0
      [] recommendation = "dns-prefetch" -> 1
      [] recommendation = "prefetch" -> 2

\* Array.prototype.sort is stable: x goes after the entries it is not less than
resourceInsert(sorted, x) ==
    LET k == Cardinality({i \in 1..Len(sorted) :
                            order(sorted[i].recommendation) - order(x.recommendation) <= 0})
    IN  SubSeq(sorted, 1, k) \o <<x>> \o SubSeq(sorted, k + 1, Len(sorted))

\* a variant that returns the resources in the order of discovery
unsortedResources(resources) == resources

RECURSIVE sortResources(_)
\* resources.sort((a, b) => order[a.recommendation] - order[b.recommendation])
sortResources(resources) ==
    IF Len(resources) = 0 THEN <<>>
    ELSE resourceInsert(sortResources(SubSeq(resources, 1, Len(resources) - 1)),
                        resources[Len(resources)])

analyzeExternalResources(content) ==
    sortResources(collect(matchedUrls(content, 1), {}, <<>>))

(***************************************************************************)
(* SpecRes: analyzeExternalResources over texts made of source fragments.  *)
(***************************************************************************)
MaxChunks == 2

\* the tag of scenario C7: <link rel="preconnect" href="https://fonts.googleapis.com">
K_linkPreconnect ==
    <<"<", "l", "i", "n", "k", " ", "r", "e", "l", "=", "\"", "p", "r",
    "e", "c", "o", "n", "n", "e", "c", "t", "\"", " ", "h", "r", "e",
    "f", "=", "\"", "h", "t", "t", "p", "s", ":", "/", "/", "f", "o",
    "n", "t", "s", ".", "g", "o", "o", "g", "l", "e", "a", "p", "i",
    "s", ".", "c", "o", "m", "\"", ">">>

\* its bare URL: https://cdn.example.com/lib.js
K_cdnLib ==
    <<"h", "t", "t", "p", "s", ":", "/", "/", "c", "d", "n", ".", "e",
    "x", "a", "m", "p", "l", "e", ".", "c", "o", "m", "/", "l", "i",
    "b", ".", "j", "s">>

ResChunks ==
    { K_linkPreconnect, K_cdnLib,
      \* an image, matched by patterns 1 and 3: src="http://x.io/a.png"
      <<"s", "r", "c", "=", "\"", "h", "t", "t", "p", ":", "/", "/", "x",
        ".", "i", "o", "/", "a", ".", "p", "n", "g", "\"">>,
      \* an API endpoint, matched by patterns 2 and 3: url('https://api.x.io/v1')
      <<"u", "r", "l", "(", "'", "h", "t", "t", "p", "s", ":", "/", "/",
        "a", "p", "i", ".", "x", ".", "i", "o", "/", "v", "1", "'", ")">>,
      \* a script, matched by patterns 3 and 4: import y from "http://x.io/m.js"
      <<"i", "m", "p", "o", "r", "t", " ", "y", " ", "f", "r", "o", "m",
        " ", "\"", "h", "t", "t", "p", ":", "/", "/", "x", ".", "i", "o",
        "/", "m", ".", "j", "s", "\"">>,
      \* a root-relative reference: href="/about.html"
      <<"h", "r", "e", "f", "=", "\"", "/", "a", "b", "o", "u", "t", ".",
        "h", "t", "m", "l", "\"">>,
      \* a style sheet on a social domain, patterns 3 and 5: @import "http://youtube.com/e.css"
      <<"@", "i", "m", "p", "o", "r", "t", " ", "\"", "h", "t", "t", "p",
        ":", "/", "/", "y", "o", "u", "t", "u", "b", "e", ".", "c", "o",
        "m", "/", "e", ".", "c", "s", "s", "\"">> }

ResTexts == {join(ls) : ls \in SeqsUpTo(ResChunks, MaxChunks)}

InitRes ==
    /\ code \in ResTexts
    /\ op = "new"
    /\ args = <<>>
    /\ ret = <<>>
    /\ WorkshopIdle

AnalyzeExternalResources ==
    /\ op = "new"
    /\ op' = "analyzeExternalResources"
    /\ args' = <<>>
    /\ ret' = analyzeExternalResources(code)
    /\ UNCHANGED <<code, workshopVars>>

NextRes == AnalyzeExternalResources

SpecRes == InitRes /\ [][NextRes]_vars

\* the matches the six patterns yield on the text, before the filter
Discovered == matchedUrls(code, 1)

\* C4: the list analyzeExternalResources returns never holds two entries with
\* the same URL, however many patterns and places the URL is matched in.
C4_Dedup ==
    op = "analyzeExternalResources" =>
        \A i, j \in 1..Len(ret) : ret[i].url = ret[j].url => i = j

\* an http URL is matched more than once and is in the result, next to another
C4_Witness ==
    /\ op = "analyzeExternalResources"
    /\ Len(ret) >= 2
    /\ \E i, j \in 1..Len(Discovered) :
          /\ i < j
          /\ Discovered[i] = Discovered[j]
          /\ \E k \in 1..Len(ret) : ret[k].url = Discovered[i]

\* the test PrefetchWorkshop applies: 'existing' in resource && resource.existing
HasExisting(r) == "existing" \in DOMAIN r /\ r["existing"] # <<>>

BareExts ==
    { <<"h", "t", "m", "l">>, <<"j", "s">>, <<"c", "s", "s">>, <<"p", "n", "g">>,
      <<"j", "p", "g">>, <<"g", "i", "f">>, <<"s", "v", "g">>, <<"j", "s", "o", "n">>,
      <<"w", "o", "f", "f">>, <<"w", "o", "f", "f", "2">> }

\* a filename without a path, ending in one of those extensions
IsBareFilename(url) ==
    /\ url # <<>>
    /\ \A k \in 1..Len(url) : url[k] \notin {"/", ":", " "}
    /\ EndsWithExt(url, BareExts)

\* the URLs C17 says are kept
Accepted(url) ==
    \/ StartsWithAt(url, 0, S_http)
    \/ StartsWithAt(url, 0, <<"/">>)
    \/ IsBareFilename(url)

\* C17: a URL matched by one of the patterns is a resource if and only if it
\* starts with http, or starts with /, or is a bare filename with a known
\* extension (and each such URL is reported once).
C17_Filter ==
    op = "analyzeExternalResources" =>
        {ret[k].url : k \in 1..Len(ret)}
            = {Discovered[k] : k \in {j \in 1..Len(Discovered) : Accepted(Discovered[j])}}

\* the kind and hint of the first rule a URL matches in the order C18 gives:
\* font, API or analytics or social, CDN, image, script, default
ClaimedClass(url) ==
    IF IncludesAny(url, FontDomains) \/ EndsWithExt(url, FontExts)
    THEN Resource(url, "font", "preconnect")
    ELSE IF \/ IncludesAny(url, ApiMarks)
            \/ Includes(url, S_googleapis) /\ ~Includes(url, S_fonts)
            \/ IncludesAny(url, SocialMarks)
    THEN Resource(url, "api", "dns-prefetch")
    ELSE IF IncludesAny(url, CdnMarks) THEN Resource(url, "cdn", "prefetch")
    ELSE IF EndsWithExt(url, ImageExts) THEN Resource(url, "image", "prefetch")
    ELSE IF EndsWithExt(url, ScriptExts) THEN Resource(url, "script", "prefetch")
    ELSE Resource(url, "cdn", "prefetch")

\* C18: every resource has the kind and hint of the first rule it matches in
\* the order font, API/analytics, CDN, image, script/style/json, default; a
\* non-font URL on an analytics or social domain is api with dns-prefetch even
\* when it has a CDN marker or an image or .js/.css/.json extension.
C18_ClassificationOrder ==
    op = "analyzeExternalResources" =>
        \A k \in 1..Len(ret) :
            /\ ret[k].type = ClaimedClass(ret[k].url).type
            /\ ret[k].recommendation = ClaimedClass(ret[k].url).recommendation

S_relEq == <<"r", "e", "l", "=", "\"">>

\* the value of the attribute that starts with the given name=" in a tag
AttrValue(tag, nameEq) ==
    LET at == {i \in 0..Len(tag) : StartsWithAtI(tag, i, nameEq)}
    IN  IF at = {} THEN <<>>
        ELSE LET i == Least(at) + Len(nameEq)
             IN  SubSeq(tag, i + 1, RunEnd(tag, i, {"\""}))

\* the <link ...> tags of a text
LinkTags(text) ==
    {SubSeq(text, i + 1, RunEnd(text, i, {">"}) + 1) :
        i \in {j \in 0..Len(text) : StartsWithAtI(text, j, S_link)}}

\* the hint a rel value stands for: preload and stylesheet count as prefetch
HintOfRel(rel) ==
    IF rel = <<"p", "r", "e", "c", "o", "n", "n", "e", "c", "t">>
    THEN "preconnect"
    ELSE IF rel = <<"d", "n", "s", "-", "p", "r", "e", "f", "e", "t", "c", "h">>
    THEN "dns-prefetch"
    ELSE IF rel \in { <<"p", "r", "e", "f", "e", "t", "c", "h">>,
                      <<"p", "r", "e", "l", "o", "a", "d">>,
                      <<"s", "t", "y", "l", "e", "s", "h", "e", "e", "t">> }
    THEN "prefetch"
    ELSE "none"

\* the hints the <link> tags of the text give to a URL
ExistingHints(text, url) ==
    {HintOfRel(AttrValue(tag, S_relEq)) :
        tag \in {t \in LinkTags(text) : AttrValue(t, S_hrefEq \o <<"\"">>) = url}} \ {"none"}

\* the URLs the <link> tags of the text give a hint to
HintedUrls(text) ==
    {AttrValue(tag, S_hrefEq \o <<"\"">>) :
        tag \in {t \in LinkTags(text) : HintOfRel(AttrValue(t, S_relEq)) # "none"}}

\* C19: a resource whose URL a <link> tag with rel preconnect, dns-prefetch or
\* prefetch (preload and stylesheet counting as prefetch) references carries
\* that relation as its existing hint, a resource no such tag references
\* carries none, and every URL of such a tag is reported as a resource.
C19_ExistingHint ==
    op = "analyzeExternalResources" =>
        /\ \A k \in 1..Len(ret) :
              IF ExistingHints(code, ret[k].url) = {}
              THEN ~HasExisting(ret[k])
              ELSE HasExisting(ret[k]) /\ ret[k]["existing"] \in ExistingHints(code, ret[k].url)
        /\ \A url \in HintedUrls(code) : \E k \in 1..Len(ret) : ret[k].url = url

\* the text of scenario C7: the tag, a line break, the bare URL
C7_Text == join(<<K_linkPreconnect, K_cdnLib>>)

\* C7: for the text of the scenario the result is exactly two resources, first
\* https://fonts.googleapis.com with kind font, recommended hint preconnect and
\* existing hint preconnect, then https://cdn.example.com/lib.js with kind
\* script, recommended hint prefetch and no existing hint.
C7_Scenario ==
    (op = "analyzeExternalResources" /\ code = C7_Text) =>
        /\ Len(ret) = 2
        /\ ret[1].url = <<"h", "t", "t", "p", "s", ":", "/", "/", "f", "o", "n", "t", "s", ".", "g", "o", "o", "g", "l", "e", "a", "p", "i", "s", ".", "c", "o", "m">>
        /\ ret[1].type = "font"
        /\ ret[1].recommendation = "preconnect"
        /\ HasExisting(ret[1]) /\ ret[1]["existing"] = "preconnect"
        /\ ret[2].url = K_cdnLib
        /\ ret[2].type = "script"
        /\ ret[2].recommendation = "prefetch"
        /\ ~HasExisting(ret[2])

(***************************************************************************)
(* parseCSS and parseCSSFromFiles.                                         *)
(***************************************************************************)
RECURSIVE splitOn(_, _)
\* s.split(sep) for a one-character separator
splitOn(s, sep) ==
    LET breaks == {i \in 1..Len(s) : s[i] = sep}
    IN  IF breaks = {} THEN <<s>>
        ELSE LET i == CHOOSE x \in breaks : \A y \in breaks : x <= y
             IN  <<SubSeq(s, 1, i - 1)>> \o splitOn(SubSeq(s, i + 1, Len(s)), sep)

\* s.trim()
trim(s) ==
    LET solid == {i \in 1..Len(s) : ~IsWs(s[i])}
    IN  IF solid = {} THEN <<>>
        ELSE SubSeq(s, CHOOSE x \in solid : \A y \in solid : x <= y,
                       CHOOSE x \in solid : \A y \in solid : y <= x)

\* cssRuleRegex = /([^{]+)\{([^}]+)\}/g: the match that starts at offset i, as
\* [index, end, selector |-> match[1], block |-> match[2]], or Null
cssRuleRegexAt(s, i) ==
    LET q == RunEnd(s, i, {"{"})
        r == RunEnd(s, q + 1, {"}"})
    IN  IF q = i \/ q >= Len(s) THEN Null
        ELSE IF r = q + 1 \/ r >= Len(s) THEN Null
        ELSE [index |-> i, end |-> r + 1, selector |-> SubSeq(s, i + 1, q),
              block |-> SubSeq(s, q + 2, r)]

RECURSIVE parseProperties(_, _)
\* propertiesStr.split(';').forEach: key and value are the first two pieces of
\* prop.split(':'), trimmed; properties[key] = value when both are non-empty
parseProperties(props, properties) ==
    IF Len(props) = 0 THEN properties
    ELSE LET pieces == splitOn(Head(props), ":")
             key == trim(pieces[1])
             value == IF Len(pieces) >= 2 THEN trim(pieces[2]) ELSE <<>>
         IN  parseProperties(Tail(props),
                 IF key # <<>> /\ value # <<>>
                 THEN [k \in DOMAIN properties \cup {key} |->
                          IF k = key THEN value ELSE properties[k]]
                 ELSE properties)

\* the empty object {}
NoProperties == [k \in {} |-> <<>>]

\* the rule pushed for one match (0-based startLine and endLine)
ruleOfMatch(content, m) ==
    LET startLine == CountChar(SubSeq(content, 1, m.index), "\n")
        matched == SubSeq(content, m.index + 1, m.end)
    IN  [selector |-> trim(m.selector),
         properties |-> parseProperties(splitOn(trim(m.block), ";"), NoProperties),
         startLine |-> startLine,
         endLine |-> startLine + CountChar(matched, "\n"),
         rawContent |-> matched]

RECURSIVE parseCSSFrom(_, _)
\* while ((match = cssRuleRegex.exec(content)) !== null), from lastIndex i
parseCSSFrom(content, i) ==
    LET starts == {k \in i..(Len(content) - 1) : cssRuleRegexAt(content, k) # Null}
    IN  IF starts = {} THEN <<>>
        ELSE LET m == cssRuleRegexAt(content,
                          CHOOSE k \in starts : \A j \in starts : k <= j)
             IN  <<ruleOfMatch(content, m)>> \o parseCSSFrom(content, m.end)

parseCSS(content) == parseCSSFrom(content, 0)

S_styleOpen == <<"<", "s", "t", "y", "l", "e">>

S_styleClose == <<"<", "/", "s", "t", "y", "l", "e", ">">>

\* styleRegex = /<style[^>]*>([\s\S]*?)<\/style>/gi: the match that starts at
\* offset i, as [index, end, css |-> match[1]], or Null
styleRegexAt(s, i) ==
    IF ~StartsWithAtI(s, i, S_styleOpen) THEN Null
    ELSE
      LET g == RunEnd(s, i + Len(S_styleOpen), {">"})
          closes == {k \in (g + 1)..Len(s) : StartsWithAtI(s, k, S_styleClose)}
      IN  IF g >= Len(s) \/ closes = {} THEN Null
          ELSE LET k == CHOOSE x \in closes : \A y \in closes : x <= y
               IN  [index |-> i, end |-> k + Len(S_styleClose),
                    css |-> SubSeq(s, g + 2, k)]

\* the rule as parseCSSFromFiles reports it: rule.startLine + offset + 1 and
\* rule.endLine + offset + 1
reportRule(rule, file, source, offset) ==
    [selector |-> rule.selector, properties |-> rule.properties,
     startLine |-> rule.startLine, endLine |-> rule.endLine,
     rawContent |-> rule.rawContent, source |-> source, fileName |-> file.name,
     lineNumber |-> rule.startLine + offset + 1,
     endLineNumber |-> rule.endLine + offset + 1]

reportRules(rules, file, source, offset) ==
    [k \in 1..Len(rules) |-> reportRule(rules[k], file, source, offset)]

RECURSIVE parseStyleBlocksFrom(_, _)
\* while ((match = styleRegex.exec(file.content)) !== null), from lastIndex i
parseStyleBlocksFrom(file, i) ==
    LET starts == {k \in i..(Len(file.content) - 1) :
                      styleRegexAt(file.content, k) # Null}
    IN  IF starts = {} THEN <<>>
        ELSE LET m == styleRegexAt(file.content,
                          CHOOSE k \in starts : \A j \in starts : k <= j)
                 styleTagLineOffset ==
                     Len(split(SubSeq(file.content, 1, m.index)))
             IN  reportRules(parseCSS(m.css), file, <<file.name, "(inline)">>,
                             styleTagLineOffset)
                 \o parseStyleBlocksFrom(file, m.end)

RECURSIVE parseFilesOfType(_, _)
\* files.filter(f => f.type === type).forEach, rules concatenated
parseFilesOfType(fs, type) ==
    IF Len(fs) = 0 THEN <<>>
    ELSE (IF Head(fs).type # type THEN <<>>
          ELSE IF type = "css"
          THEN reportRules(parseCSS(Head(fs).content), Head(fs), Head(fs).name, 0)
          ELSE parseStyleBlocksFrom(Head(fs), 0))
         \o parseFilesOfType(Tail(fs), type)

parseCSSFromFiles(fs) == parseFilesOfType(fs, "css") \o parseFilesOfType(fs, "html")

(***************************************************************************)
(* SpecCss: parseCSSFromFiles over one project file.                       *)
(***************************************************************************)
MaxCssLines == 4

L_body == <<"b", "o", "d", "y", " ", "{">>

L_color ==
    <<" ", " ", "c", "o", "l", "o", "r", ":", " ", "r", "e", "d", ";">>

L_close == <<"}">>

L_x ==
    <<".", "x", " ", "{", " ", "m", "a", "r", "g", "i", "n", ":", " ", "0", ";", " ", "}">>

\* a rule with a colon inside a value, a repeated key and an empty value:
\* ".y { b: url(h://a); m: 0; m: 1; c: }"
L_y ==
    <<".", "y", " ", "{", " ", "b", ":", " ", "u", "r", "l", "(", "h", ":", "/", "/", "a", ")", ";", " ", "m", ":", " ", "0", ";", " ", 
      "m", ":", " ", "1", ";", " ", "c", ":", " ", "}">>

\* "body {", "  color: red;", "}", ".x { margin: 0; }", and L_y
CssRuleLines == {L_body, L_color, L_close, L_x, L_y}

CssContents == {join(ls) : ls \in SeqsUpTo(CssRuleLines, MaxCssLines)}

L_style == <<"<", "s", "t", "y", "l", "e", ">">>

L_endStyle == <<"<", "/", "s", "t", "y", "l", "e", ">">>

\* an HTML file with one <style> block: "<p>", "<style>", css, "</style>"
HtmlWithStyle(css) == join(<<<<"<", "p", ">">>, L_style, css, L_endStyle>>)

ProjectFile(n, t, c) == [name |-> n, type |-> t, content |-> c]

\* an HTML file whose rules begin on the line of the <style> tag:
\* "<p>", "<style>" css "</style>"
HtmlWithStyleOnLine(css) == join(<<<<"<", "p", ">">>, L_style \o css \o L_endStyle>>)

CssProjects ==
    {<<ProjectFile("a.css", "css", c)>> : c \in CssContents}
    \cup {<<ProjectFile("i.html", "html", h)>> :
            h \in UNION {{HtmlWithStyle(join(ls)), HtmlWithStyleOnLine(join(ls))} :
                            ls \in SeqsUpTo(CssRuleLines, 2)}}

InitCss ==
    /\ files \in CssProjects
    /\ code = <<>>
    /\ op = "new"
    /\ args = <<>>
    /\ ret = <<>>
    /\ selectedResources = <<>>
    /\ manualResources = <<>>
    /\ detectedResources = <<>>
    /\ sent = <<>>

ParseCSSFromFiles ==
    /\ op = "new"
    /\ op' = "parseCSSFromFiles"
    /\ args' = <<>>
    /\ ret' = parseCSSFromFiles(files)
    /\ UNCHANGED <<code, workshopVars>>

\* the locator run on a rule the extractor returned for a CSS file, as
\* handleApplyChanges does: manipulator.findCSSRule(selectedRule)
FindParsedRule ==
    /\ op = "parseCSSFromFiles"
    /\ files[1].type = "css"
    /\ \E k \in 1..Len(ret) :
          /\ args' = ret[k]
          /\ ret' = findCSSRule(files[1].content, ret[k].selector)
    /\ op' = "findCSSRule"
    /\ UNCHANGED <<code, workshopVars>>

NextCss == ParseCSSFromFiles \/ FindParsedRule

SpecCss == InitCss /\ [][NextCss]_vars

\* the text between a rule's first { and its closing }
BlockOf(rule) ==
    LET raw == rule.rawContent
        open == Least({k \in 1..Len(raw) : raw[k] = "{"})
    IN  SubSeq(raw, open + 1, Len(raw) - 1)

\* the declaration pieces of a block, split on ';'
PiecesOf(block) == splitOn(trim(block), ";")

\* the trimmed text before a piece's first ':' (the whole piece without one)
KeyOf(piece) ==
    LET colons == {k \in 1..Len(piece) : piece[k] = ":"}
    IN  IF colons = {} THEN trim(piece) ELSE trim(SubSeq(piece, 1, Least(colons) - 1))

\* the whole trimmed text after a piece's first ':' (empty without one)
ValueOf(piece) ==
    LET colons == {k \in 1..Len(piece) : piece[k] = ":"}
    IN  IF colons = {} THEN <<>>
        ELSE trim(SubSeq(piece, Least(colons) + 1, Len(piece)))

\* the properties C15 describes: pieces with an empty key or value dropped, the
\* last kept occurrence of a key giving its value
ClaimedProperties(block) ==
    LET pieces == PiecesOf(block)
        kept == {k \in 1..Len(pieces) :
                    KeyOf(pieces[k]) # <<>> /\ ValueOf(pieces[k]) # <<>>}
    IN  [key \in {KeyOf(pieces[k]) : k \in kept} |->
            ValueOf(pieces[CHOOSE k \in kept :
                              /\ KeyOf(pieces[k]) = key
                              /\ \A j \in kept : KeyOf(pieces[j]) = key => j <= k])]

\* C15: for every rule, each piece of the block split on ';' gives the key, the
\* trimmed text before its first ':', and the value, the whole trimmed text
\* after that ':'; pieces with an empty key or value are dropped and the last
\* occurrence of a key gives the reported value.
C15_Properties ==
    op = "parseCSSFromFiles" =>
        \A k \in 1..Len(ret) : ret[k].properties = ClaimedProperties(BlockOf(ret[k]))

\* the 1-based line of the text on which offset i lies
LineOfOffset(text, i) == CountChar(SubSeq(text, 1, i), "\n") + 1

RECURSIVE RuleSpansFrom(_, _, _)
\* for the rules of css from offset i on, css lying at offset base of text:
\* the offsets in text of the selector's first character and of the closing }
RuleSpansFrom(css, i, base) ==
    LET starts == {k \in i..(Len(css) - 1) : cssRuleRegexAt(css, k) # Null}
    IN  IF starts = {} THEN <<>>
        ELSE LET m == cssRuleRegexAt(css, Least(starts))
             IN  <<[first |-> base + SkipWs(css, m.index), last |-> base + m.end - 1]>>
                 \o RuleSpansFrom(css, m.end, base)

RECURSIVE InlineRuleSpansFrom(_, _)
\* the same for the rules of every <style> block of an HTML text, from offset i
InlineRuleSpansFrom(text, i) ==
    LET starts == {k \in i..(Len(text) - 1) : styleRegexAt(text, k) # Null}
    IN  IF starts = {} THEN <<>>
        ELSE LET m == styleRegexAt(text, Least(starts))
             IN  RuleSpansFrom(m.css, 0, m.end - Len(S_styleClose) - Len(m.css))
                 \o InlineRuleSpansFrom(text, m.end)

\* C16: for every rule inside a <style> block of an HTML file, lineNumber is
\* the line of the file on which the rule's selector begins and endLineNumber
\* the line of its closing brace, wherever the rule sits relative to the tag.
C16_InlineLineNumbers ==
    (op = "parseCSSFromFiles" /\ files[1].type = "html") =>
        LET spans == InlineRuleSpansFrom(files[1].content, 0)
        IN  /\ Len(ret) = Len(spans)
            /\ \A k \in 1..Len(ret) :
                  /\ ret[k].lineNumber = LineOfOffset(files[1].content, spans[k].first)
                  /\ ret[k].endLineNumber = LineOfOffset(files[1].content, spans[k].last)

\* the file of scenario C6
C6_Content == join(<<L_body, L_color, L_close, L_x>>)

\* the first line of a text, without leading whitespace
FirstLineOf(s) == trim(split(s)[1])

\* line n (1-based) of content begins, after its indentation, with the first
\* line of the selector
SelectorBeginsOn(content, selector, n) ==
    LET lines == split(content)
    IN  /\ n >= 1 /\ n <= Len(lines)
        /\ StartsWithAt(trim(lines[n]), 0, FirstLineOf(selector))

\* C6: for the four-line file, parseCSSFromFiles reports body at lines 1-3 with
\* {color: red} and .x at lines 4-4 with {margin: 0}; and for every CSS file the
\* reported start line of a rule is the line on which its selector begins.
C6_LineNumbers ==
    (op = "parseCSSFromFiles" /\ files[1].type = "css") =>
        /\ files[1].content = C6_Content =>
              /\ Len(ret) = 2
              /\ ret[1].selector = <<"b", "o", "d", "y">>
              /\ ret[1].lineNumber = 1 /\ ret[1].endLineNumber = 3
              /\ ret[1].properties = [k \in {<<"c", "o", "l", "o", "r">>} |-> <<"r", "e", "d">>]
              /\ ret[2].selector = <<".", "x">>
              /\ ret[2].lineNumber = 4 /\ ret[2].endLineNumber = 4
              /\ ret[2].properties = [k \in {<<"m", "a", "r", "g", "i", "n">>} |-> <<"0">>]
        /\ \A k \in 1..Len(ret) :
              SelectorBeginsOn(files[1].content, ret[k].selector, ret[k].lineNumber)

(***************************************************************************)
(* PrefetchWorkshop: the selection, the generated tags and handleApplyAll. *)
(***************************************************************************)
\* files.map(f => f.content).join('\n')
allContent(fs) == join([k \in 1..Len(fs) |-> fs[k].content])

\* useMemo(() => analyzeExternalResources(allContent), [files])
detectResources(fs) == analyzeExternalResources(allContent(fs))

allResources == detectedResources \o manualResources

\* allResources.find(r => r.url === url), Null for undefined
findResource(url) ==
    LET hits == {k \in 1..Len(allResources) : allResources[k].url = url}
    IN  IF hits = {} THEN Null
        ELSE allResources[CHOOSE k \in hits : \A j \in hits : k <= j]

\* the characters of a recommendation
hintText(recommendation) ==
    CASE recommendation = "preconnect" -> <<"p", "r", "e", "c", "o", "n", "n", "e", "c", "t">>
      [] recommendation = "dns-prefetch" -> <<"d", "n", "s", "-", "p", "r", "e", "f", "e", "t", "c", "h">>
      [] recommendation = "prefetch" -> <<"p", "r", "e", "f", "e", "t", "c", "h">>

S_gstatic == <<"g", "s", "t", "a", "t", "i", "c">>

\* `<link rel="${resource.recommendation}" href="${resource.url}"${crossorigin}>`,
\* '' for a URL that is not a resource
linkTag(url) ==
    LET resource == findResource(url)
    IN  IF resource = Null THEN <<>>
        ELSE <<"<", "l", "i", "n", "k", " ", "r", "e", "l", "=", "\"">> \o hintText(resource.recommendation)
             \o <<"\"", " ", "h", "r", "e", "f", "=", "\"">> \o resource.url \o <<"\"">>
             \o (IF resource.type = "font" /\ Includes(resource.url, S_gstatic)
                 THEN <<" ", "c", "r", "o", "s", "s", "o", "r", "i", "g", "i", "n">> ELSE <<>>)
             \o <<">">>

generatedTags == join([k \in 1..Len(selectedResources) |-> linkTag(selectedResources[k])])

\* prev.includes(url) ? prev.filter(u => u !== url) : [...prev, url]
toggled(prev, url) ==
    IF \E k \in 1..Len(prev) : prev[k] = url
    THEN SelectSeq(prev, LAMBDA u : u # url)
    ELSE Append(prev, url)

\* the kind addManualUrl gives a URL
manualKind(manualUrl) ==
    IF \/ Includes(manualUrl, <<"f", "o", "n", "t", "s", ".", "g", "o", "o", "g", "l", "e", "a", "p", "i", "s", ".", "c", "o", "m">>)
       \/ Includes(manualUrl, <<"f", "o", "n", "t", "s", ".", "g", "s", "t", "a", "t", "i", "c", ".", "c", "o", "m">>)
       \/ EndsWithExt(manualUrl, FontExts)
    THEN "font"
    ELSE IF Includes(manualUrl, <<"a", "p", "i", ".">>) \/ Includes(manualUrl, <<"/", "a", "p", "i", "/">>)
    THEN "api"
    ELSE IF EndsWithExt(manualUrl, ImageExts \ {<<"b", "m", "p">>}) THEN "image"
    ELSE IF EndsWithExt(manualUrl, ScriptExts) THEN "script"
    ELSE "cdn"

\* files.find(f => f.type === 'html' && f.content.includes('<head')), Null for
\* undefined
findHtmlFile(fs) ==
    LET hits == {k \in 1..Len(fs) :
                    fs[k].type = "html" /\ Includes(fs[k].content, S_headOpen)}
    IN  IF hits = {} THEN Null ELSE fs[CHOOSE k \in hits : \A j \in hits : k <= j]

S_indent == <<" ", " ", " ", " ">>

S_prefetchComment ==
    <<" ", " ", " ", " ", "<", "!", "-", "-", " ", "P", "r", "e", "f", "e", "t", "c", "h", " ", "o", "p", "t", "i", "m", "i", "z", "a", "t", "i", "o", "n", "s", " ", "a", "d", "d", "e", "d", " ", "b", "y", " ", "P", "r", "e", "f", "e", "t", "c", "h", " ", "W", "o", "r", "k", "s", "h", "o", "p", " ", "-", "-", ">", "\n">>

S_fallbackComment ==
    <<" ", " ", " ", " ", "<", "!", "-", "-", " ", "P", "r", "e", "f", "e", "t", "c", "h", " ", "o", "p", "t", "i", "m", "i", "z", "a", "t", "i", "o", "n", "s", " ", "-", "-", ">", "\n">>

\* `\n${prefetchComment}${indentedTags}\n`, each tag trimmed and indented
insertContent(tags) ==
    LET lines == split(tags)
        indentedTags ==
            join([k \in 1..Len(lines) |->
                    IF trim(lines[k]) # <<>> THEN S_indent \o trim(lines[k])
                    ELSE lines[k]])
    IN  <<"\n">> \o S_prefetchComment \o indentedTags \o <<"\n">>

\* headInsertRegex = /(<head[^>]*>)/i: the end of its first match, or -1
headInsertRegexEnd(s) ==
    LET starts == {i \in 0..(Len(s) - 1) :
                      /\ StartsWithAtI(s, i, S_headOpen)
                      /\ RunEnd(s, i + Len(S_headOpen), {">"}) < Len(s)}
    IN  IF starts = {} THEN -1
        ELSE RunEnd(s, (CHOOSE i \in starts : \A j \in starts : i <= j)
                        + Len(S_headOpen), {">"}) + 1

\* content.replace(headInsertRegex, match => match + comment + tags + '\n')
replaceAfterHead(content, tags) ==
    LET e == headInsertRegexEnd(content)
        lines == split(tags)
    IN  IF e = -1 THEN content
        ELSE SubSeq(content, 1, e) \o <<"\n">> \o S_fallbackComment
             \o join([k \in 1..Len(lines) |-> S_indent \o lines[k]])
             \o <<"\n">> \o SubSeq(content, e + 1, Len(content))

Patch(data) ==
    [type |-> "WORKSHOP_APPLY_PATCH", workshopId |-> "prefetch-workshop", data |-> data]

\* the message handleApplyAll passes to sendMessage
applyAllMessage ==
    LET htmlFile == findHtmlFile(files)
        n == Len(selectedResources)
    IN  IF htmlFile = Null
        THEN Patch([code |-> generatedTags,
                    summary |-> [text |-> "Added N prefetch optimizations (manual insertion required)",
                                 N |-> n]])
        ELSE
          LET headLocation == findHtmlHead(htmlFile.content)
          IN  IF headLocation # Null
              THEN Patch([code |-> insertAtLocation(htmlFile.content, headLocation,
                                                    insertContent(generatedTags), FALSE),
                          summary |-> [text |-> "Smart-inserted N prefetch optimizations into <head> section",
                                       N |-> n],
                          changes |-> <<[type |-> "insert",
                                         description |-> [text |-> "Added prefetch tags to F",
                                                          F |-> htmlFile.name],
                                         location |-> [text |-> "Head section (line L)",
                                                       L |-> headLocation.startLine]]>>])
              ELSE Patch([code |-> replaceAfterHead(htmlFile.content, generatedTags),
                          summary |-> [text |-> "Added N prefetch optimizations after <head> tag",
                                       N |-> n]])

(***************************************************************************)
(* SpecPrefetch: the workshop over one HTML file, until it closes.         *)
(***************************************************************************)
MaxHeadLines == 2

U_detected == <<"h", "t", "t", "p", ":", "/", "/", "c", ".", "d">>

U_manual == <<"h", "t", "t", "p", ":", "/", "/", "m", ".", "n">>

\* the HTML lines of the file, then a line with a bare URL
PrefetchProjects ==
    {<<ProjectFile("i.html", "html", join(ls \o <<U_detected>>))>> :
        ls \in SeqsUpTo(HtmlLines, MaxHeadLines)}

Recommendations == {"preconnect", "dns-prefetch", "prefetch"}

InitPrefetch ==
    /\ files \in PrefetchProjects
    /\ selectedResources = <<>>
    /\ manualResources = <<>>
    /\ detectedResources = detectResources(files)
    /\ sent = <<>>
    /\ code = <<>>
    /\ op = "new"
    /\ args = <<>>
    /\ ret = <<>>

\* the workshop is open: handleApplyAll closes it (onClose) after sendMessage
Open == sent = <<>>

ToggleResource ==
    /\ Open
    /\ \E k \in 1..Len(allResources) :
          LET url == allResources[k].url
          IN  /\ selectedResources' = toggled(selectedResources, url)
              /\ op' = "toggleResource"
              /\ args' = <<url>>
    /\ UNCHANGED <<code, ret, files, manualResources, detectedResources, sent>>

AddManualUrl ==
    /\ Open
    /\ \E manualUrl \in {U_manual, U_detected, <<>>}, manualType \in Recommendations :
          /\ op' = "addManualUrl"
          /\ args' = <<manualUrl, manualType>>
          /\ IF trim(manualUrl) = <<>> \/ ~StartsWithAt(manualUrl, 0, S_http)
                \/ \E k \in 1..Len(manualResources) : manualResources[k].url = manualUrl
             THEN UNCHANGED <<manualResources, selectedResources>>
             ELSE /\ manualResources' =
                        Append(manualResources,
                               Resource(manualUrl, manualKind(manualUrl), manualType))
                  /\ selectedResources' = Append(selectedResources, manualUrl)
    /\ UNCHANGED <<code, ret, files, detectedResources, sent>>

HandleApplyAll ==
    /\ Open
    /\ op' = "handleApplyAll"
    /\ args' = <<>>
    /\ IF generatedTags = <<>> \/ Len(selectedResources) = 0
       THEN sent' = sent
       ELSE sent' = Append(sent, applyAllMessage)
    /\ UNCHANGED <<code, ret, files, selectedResources, manualResources, detectedResources>>

NextPrefetch == ToggleResource \/ AddManualUrl \/ HandleApplyAll

SpecPrefetch == InitPrefetch /\ [][NextPrefetch]_vars

\* findHtmlHead finds no head in the HTML file being modified, or there is no
\* HTML file with a head to modify
HeadNotFound ==
    \/ findHtmlFile(files) = Null
    \/ findHtmlHead(findHtmlFile(files).content) = Null

\* C8: whenever findHtmlHead finds no head in the HTML file being modified, the
\* buffer handleApplyAll sends still contains every generated <link> tag.
C8_HeadFallback ==
    (op = "handleApplyAll" /\ sent # <<>> /\ HeadNotFound) =>
        \A k \in 1..Len(selectedResources) :
            Includes(sent[Len(sent)].data.code, linkTag(selectedResources[k]))

(***************************************************************************)
(* SpecSelect: the lists of the Prefetch workshop while it is open, under  *)
(* every event that changes them.                                          *)
(***************************************************************************)
\* a file with the detected URL and a file without any
SelectProjects ==
    {<<ProjectFile("i.html", "html", U_detected)>>,
     <<ProjectFile("i.html", "html", <<"<", "p", ">">>)>>}

InitSelect ==
    /\ files \in SelectProjects
    /\ selectedResources = <<>>
    /\ manualResources = <<>>
    /\ detectedResources = detectResources(files)
    /\ sent = <<>>
    /\ code = <<>>
    /\ op = "new"
    /\ args = <<>>
    /\ ret = <<>>

\* the button of a manual resource: both lists drop its URL
RemoveManual ==
    /\ Open
    /\ \E k \in 1..Len(manualResources) :
          LET url == manualResources[k].url
          IN  /\ manualResources' = SelectSeq(manualResources, LAMBDA r : r.url # url)
              /\ selectedResources' = SelectSeq(selectedResources, LAMBDA u : u # url)
              /\ op' = "removeManual"
              /\ args' = <<url>>
    /\ UNCHANGED <<code, ret, files, detectedResources, sent>>

\* Select All Resources: setSelectedResources(allResources.map(r => r.url))
SelectAll ==
    /\ Open
    /\ selectedResources' = [k \in 1..Len(allResources) |-> allResources[k].url]
    /\ op' = "selectAll"
    /\ args' = <<>>
    /\ UNCHANGED <<code, ret, files, manualResources, detectedResources, sent>>

\* the files prop changes: the effect empties the selection and the memo
\* analyses the new files
FilesChange ==
    /\ Open
    /\ \E fs \in SelectProjects :
          /\ fs # files
          /\ files' = fs
          /\ detectedResources' = detectResources(fs)
    /\ selectedResources' = <<>>
    /\ op' = "filesChange"
    /\ args' = <<>>
    /\ UNCHANGED <<code, ret, manualResources, sent>>

NextSelect ==
    \/ ToggleResource
    \/ AddManualUrl
    \/ RemoveManual
    \/ SelectAll
    \/ FilesChange

SpecSelect == InitSelect /\ [][NextSelect]_vars

\* the number of <link> tags of the generated text that name url
TagsFor(url) ==
    LET href == <<"h", "r", "e", "f", "=", "\"">> \o url \o <<"\"">>
    IN  Cardinality({i \in 0..Len(generatedTags) : StartsWithAt(generatedTags, i, href)})

\* C30: the selection holds each URL at most once, and the generated text
\* holds at most one <link> tag per URL, with the rel of the resource shown
\* for that URL; also after a manual URL was added that equals a detected or
\* an already selected URL.
C30_OneTagPerUrl ==
    /\ \A i, j \in 1..Len(selectedResources) :
          i # j => selectedResources[i] # selectedResources[j]
    /\ \A k \in 1..Len(allResources) :
          /\ TagsFor(allResources[k].url) <= 1
          /\ TagsFor(allResources[k].url) = 1 =>
                Includes(generatedTags,
                         <<"r", "e", "l", "=", "\"">>
                         \o hintText(allResources[k].recommendation)
                         \o <<"\"", " ", "h", "r", "e", "f", "=", "\"">>
                         \o allResources[k].url \o <<"\"">>)

(***************************************************************************)
(* SpecEdit: one insertAtLocation or deleteAtLocation on a manipulator.    *)
(***************************************************************************)
\* the columns of the lines of BatchBuffers, end included
EditCols == 0..2

\* the spans of a buffer: single-line with startCol <= endCol, and multi-line
EditLocations(c) ==
    LET n == Len(split(c))
    IN  {CodeLocation(sl, el, sc, ec, <<>>) :
            sl \in 0..(n - 1), el \in 0..(n - 1), sc \in EditCols, ec \in EditCols}
        \cap {l \in [startLine : Nat, endLine : Nat, startCol : Nat, endCol : Nat,
                     content : {<<>>}] :
                 \/ l.startLine < l.endLine
                 \/ l.startLine = l.endLine /\ l.startCol <= l.endCol}

InitEdit ==
    /\ code \in BatchBuffers
    /\ op = "new"
    /\ args = <<>>
    /\ ret = <<>>
    /\ WorkshopIdle

InsertAtLocation ==
    /\ op = "new"
    /\ \E location \in EditLocations(code), content \in NewContents, indent \in BOOLEAN :
          /\ op' = "insertAtLocation"
          /\ args' = [location |-> location, content |-> content, indent |-> indent]
          /\ ret' = insertAtLocation(code, location, content, indent)
    /\ UNCHANGED <<code, workshopVars>>

DeleteAtLocation ==
    /\ op = "new"
    /\ \E location \in EditLocations(code) :
          /\ op' = "deleteAtLocation"
          /\ args' = [location |-> location]
          /\ ret' = deleteAtLocation(code, location)
    /\ UNCHANGED <<code, workshopVars>>

\* applyChanges([{type: 'append', location, newContent}])
AppendChange ==
    /\ op = "new"
    /\ \E location \in EditLocations(code), content \in NewContents :
          /\ op' = "append"
          /\ args' = [location |-> location, content |-> content]
          /\ ret' = applyChanges(code, <<[type |-> "append", location |-> location,
                                         newContent |-> content]>>)
    /\ UNCHANGED <<code, workshopVars>>

NextEdit == InsertAtLocation \/ DeleteAtLocation \/ AppendChange

SpecEdit == InitEdit /\ [][NextEdit]_vars

\* the lines of the buffer before the span, and those after it
LinesBefore(c, location) == SubSeq(split(c), 1, location.startLine)

LinesAfter(c, location) == SubSeq(split(c), location.endLine + 2, Len(split(c)))

\* text t keeps the lines outside the span, in order, around the text middle
KeepsOutside(t, c, location, middle) ==
    LET before == LinesBefore(c, location)
        after == LinesAfter(c, location)
        lt == split(t)
    IN  /\ Len(lt) >= Len(before) + Len(after) + 1
        /\ SubSeq(lt, 1, Len(before)) = before
        /\ SubSeq(lt, Len(lt) - Len(after) + 1, Len(lt)) = after
        /\ join(SubSeq(lt, Len(before) + 1, Len(lt) - Len(after))) = middle

\* C11: insertAtLocation with reindent off changes, for a single-line span, only
\* line startLine, which becomes line[0..startCol) + content + line[endCol..);
\* for a multi-line span it replaces lines startLine..endLine by the content;
\* the lines outside the span are kept in order, and the manipulator's buffer
\* is left as it was, so the same call gives the same string again.
C11_InsertFrame ==
    (op = "insertAtLocation" /\ ~args.indent) =>
        LET l == args.location
            line == split(code)[l.startLine + 1]
        IN  /\ KeepsOutside(ret, code, l,
                   IF l.startLine = l.endLine
                   THEN SubSeq(line, 1, l.startCol) \o args.content
                        \o SubSeq(line, l.endCol + 1, Len(line))
                   ELSE args.content)
            /\ ret = insertAtLocation(code, l, args.content, FALSE)

\* a multi-line text was inserted with reindent off, into a single-line span
\* inside a line and over a multi-line span, with lines on both sides
C11_Witness ==
    /\ op = "insertAtLocation" /\ ~args.indent
    /\ Len(split(args.content)) > 1
    /\ args.location.startLine > 0
    /\ args.location.endLine < Len(split(code)) - 1
    /\ args.location.startCol > 0
    /\ ret # code

\* C12: deleteAtLocation removes, for a single-line span, the characters
\* [startCol, endCol) of that line and keeps the line count; for a multi-line
\* span it replaces lines startLine..endLine by one line, the first line's
\* prefix before startCol followed by the last line's suffix from endCol, so
\* that the line count drops by endLine - startLine; other lines are unchanged.
C12_Delete ==
    op = "deleteAtLocation" =>
        LET l == args.location
            lines == split(code)
        IN  /\ KeepsOutside(ret, code, l,
                   IF l.startLine = l.endLine
                   THEN Cut(lines[l.startLine + 1], l.startCol, l.endCol)
                   ELSE SubSeq(lines[l.startLine + 1], 1, l.startCol)
                        \o SubSeq(lines[l.endLine + 1], l.endCol + 1,
                                  Len(lines[l.endLine + 1])))
            /\ Len(split(ret)) = Len(lines) - (l.endLine - l.startLine)

\* a multi-line span was deleted from inside its first line to inside its last
C12_Witness ==
    /\ op = "deleteAtLocation"
    /\ args.location.startLine < args.location.endLine
    /\ args.location.startCol > 0
    /\ args.location.endCol < Len(split(code)[args.location.endLine + 1])
    /\ Len(split(ret)) < Len(split(code))

(***************************************************************************)
(* The spacing tool's lexical scanner, stripStringsAndLineComments.        *)
(***************************************************************************)
\* inStr === null
NoString == ""

\* { inStr: null, inBlock: false }
FreshState == [inStr |-> NoString, inBlock |-> FALSE]

S_httpColon == <<"h", "t", "t", "p", ":">>

S_httpsColon == <<"h", "t", "t", "p", "s", ":">>

\* s.endsWith(pat)
EndsWith(s, pat) == Len(s) >= Len(pat) /\ StartsWithAt(s, Len(s) - Len(pat), pat)

\* out.endsWith("http:") || out.endsWith("https:")
afterScheme(out) == EndsWith(out, S_httpColon) \/ EndsWith(out, S_httpsColon)

\* the template-literal quote, U+0060, which a TLA+ string cannot hold
Backtick == "U+0060"

StringQuotes == {"'", "\"", Backtick}

RECURSIVE scanFrom(_, _, _, _, _)
\* the while loop, from offset i; next is "" where line[i + 1] is undefined
scanFrom(line, i, inStr, inBlock, out) ==
    IF i >= Len(line)
    THEN [out |-> out, state |-> [inStr |-> inStr, inBlock |-> inBlock]]
    ELSE
      LET ch == line[i + 1]
          next == CharAt(line, i + 1)
      IN  IF inBlock
          THEN IF ch = "*" /\ next = "/"
               THEN scanFrom(line, i + 2, inStr, FALSE, out)
               ELSE scanFrom(line, i + 1, inStr, inBlock, out)
          ELSE IF inStr # NoString
          THEN IF ch = "\\" /\ i + 1 < Len(line)
               THEN scanFrom(line, i + 2, inStr, inBlock, out)
               ELSE scanFrom(line, i + 1, IF ch = inStr THEN NoString ELSE inStr,
                             inBlock, out)
          ELSE IF ch = "/" /\ next = "*"
          THEN scanFrom(line, i + 2, inStr, TRUE, out)
          ELSE IF ch = "/" /\ next = "/" /\ ~afterScheme(out)
          THEN [out |-> out, state |-> [inStr |-> inStr, inBlock |-> inBlock]]
          ELSE IF ch \in StringQuotes
          THEN scanFrom(line, i + 1, ch, inBlock, out)
          ELSE scanFrom(line, i + 1, inStr, inBlock, Append(out, ch))

\* a variant that starts every line outside strings and comments
stripStringsAndLineCommentsFresh(line, state) ==
    scanFrom(line, 0, NoString, FALSE, <<>>)

\* the scan of one line: the returned string and the state it leaves in `state`
stripStringsAndLineComments(line, state) ==
    scanFrom(line, 0, state.inStr, state.inBlock, <<>>)

(***************************************************************************)
(* SpecScan: the scanner run over the lines of a buffer with one state.    *)
(***************************************************************************)
MaxScanLines == 2

ScanLines ==
    { <<"a", " ", "=", " ", "\"", "b", "{">>,
      <<"c", "\"", " ", "}">>,
      <<"/", "*", " ", "{">>,
      <<"}", " ", "*", "/", " ", "{">>,
      <<"\"", "\\", "\"", " ", "{", "\"", " ", "}">>,
      <<"u", "(", "h", "t", "t", "p", ":", "/", "/", "a", ")", " ", "{">>,
      <<"x", " ", "/", "/", " ", "{">>,
      <<"'", "/", "/", "'", " ", "{">>,
      <<"\"", "a", "\\">>,
      <<"{", " ", "}", " ", "[">>,
      <<Backtick, " ", "$", "{">>,
      <<"y", " ", "=", " ", "h", "t", "t", "p", "s", ":", "/", "/", "b", " ", "/", "/", " ", "}">>,
      <<"w", "(", "h", "t", "t", "p", ":", "/", "/", "*", ".", "i", "o", ")", " ", "{">> }

ScanBuffers == {join(ls) : ls \in SeqsUpTo(ScanLines, MaxScanLines)}

\* ret holds the scans returned so far, args the shared state
InitScan ==
    /\ code \in ScanBuffers
    /\ op = "new"
    /\ args = FreshState
    /\ ret = <<>>
    /\ WorkshopIdle

\* the scan of the next line of the buffer
StripStringsAndLineComments ==
    /\ Len(ret) < Len(split(code))
    /\ LET r == stripStringsAndLineComments(split(code)[Len(ret) + 1], args)
       IN  /\ ret' = Append(ret, r.out)
           /\ args' = r.state
    /\ op' = "stripStringsAndLineComments"
    /\ UNCHANGED <<code, workshopVars>>

NextScan == StripStringsAndLineComments

SpecScan == InitScan /\ [][NextScan]_vars

\* the state the scanner is in after the first n lines of the buffer
RECURSIVE stateAfter(_, _)
stateAfter(lines, n) ==
    IF n = 0 THEN FreshState
    ELSE stripStringsAndLineComments(lines[n], stateAfter(lines, n - 1)).state

RECURSIVE lexFrom(_, _, _, _, _, _, _)
\* a lexer over the whole text, line breaks included: outs are the finished
\* lines' code characters, cur those of the line in progress; a string or a
\* block comment runs across line breaks, a line comment (inLine) ends at one,
\* a backslash in a string takes the next character of the line with it
lexFrom(text, i, inStr, inBlock, inLine, cur, outs) ==
    IF i >= Len(text)
    THEN [outs |-> Append(outs, cur), state |-> [inStr |-> inStr, inBlock |-> inBlock]]
    ELSE
      LET ch == text[i + 1]
          next == CharAt(text, i + 1)
      IN  IF ch = "\n"
          THEN lexFrom(text, i + 1, inStr, inBlock, FALSE, <<>>, Append(outs, cur))
          ELSE IF inLine
          THEN lexFrom(text, i + 1, inStr, inBlock, inLine, cur, outs)
          ELSE IF inBlock
          THEN IF ch = "*" /\ next = "/"
               THEN lexFrom(text, i + 2, inStr, FALSE, inLine, cur, outs)
               ELSE lexFrom(text, i + 1, inStr, inBlock, inLine, cur, outs)
          ELSE IF inStr # NoString
          THEN IF ch = "\\" /\ next \notin {"", "\n"}
               THEN lexFrom(text, i + 2, inStr, inBlock, inLine, cur, outs)
               ELSE IF ch = inStr
               THEN lexFrom(text, i + 1, NoString, inBlock, inLine, cur, outs)
               ELSE lexFrom(text, i + 1, inStr, inBlock, inLine, cur, outs)
          ELSE IF ch = "/" /\ next = "*"
          THEN lexFrom(text, i + 2, inStr, TRUE, inLine, cur, outs)
          ELSE IF ch = "/" /\ next = "/" /\ ~afterScheme(cur)
          THEN lexFrom(text, i + 2, inStr, inBlock, TRUE, cur, outs)
          ELSE IF ch \in StringQuotes
          THEN lexFrom(text, i + 1, ch, inBlock, inLine, cur, outs)
          ELSE lexFrom(text, i + 1, inStr, inBlock, inLine, Append(cur, ch), outs)

lexText(text) == lexFrom(text, 0, NoString, FALSE, FALSE, <<>>, <<>>)

\* C13: run over the lines of a buffer in order with one shared state, the
\* scanner returns for each line exactly the characters a lexer of the whole
\* text finds outside strings and comments on that line, none of them a quote:
\* a string or block comment open at a line's end is open at the next line's
\* start, and a backslash in a string keeps the next quote from closing it.
C13_ScannerThreading ==
    op = "stripStringsAndLineComments" =>
        LET whole == lexText(join(SubSeq(split(code), 1, Len(ret))))
        IN  /\ ret = whole.outs
            /\ args = whole.state
            /\ \A k \in 1..Len(ret) : \A j \in 1..Len(ret[k]) :
                  ret[k][j] \notin StringQuotes

\* the first line left a string or a block comment open, the second closed it
\* and its brace after the closing was returned
C13_Witness ==
    /\ op = "stripStringsAndLineComments"
    /\ Len(ret) = 2
    /\ stateAfter(split(code), 1) # FreshState
    /\ args = FreshState
    /\ \E j \in 1..Len(ret[2]) : ret[2][j] \in {"{", "}"}
    /\ CountChar(ret[2], "{") + CountChar(ret[2], "}")
         < CountChar(split(code)[2], "{") + CountChar(split(code)[2], "}")

RECURSIVE claimedScanFrom(_, _, _, _, _)
\* the scan of a line as C14 words it: outside strings and block comments the
\* first // ends the line, unless the text emitted so far ends with http: or
\* https:, and then both slashes are emitted and the scan goes on after them
claimedScanFrom(line, i, inStr, inBlock, out) ==
    IF i >= Len(line) THEN out
    ELSE
      LET ch == line[i + 1]
          next == CharAt(line, i + 1)
      IN  IF inBlock
          THEN IF ch = "*" /\ next = "/"
               THEN claimedScanFrom(line, i + 2, inStr, FALSE, out)
               ELSE claimedScanFrom(line, i + 1, inStr, inBlock, out)
          ELSE IF inStr # NoString
          THEN IF ch = "\\" /\ i + 1 < Len(line)
               THEN claimedScanFrom(line, i + 2, inStr, inBlock, out)
               ELSE claimedScanFrom(line, i + 1,
                                    IF ch = inStr THEN NoString ELSE inStr, inBlock, out)
          ELSE IF ch = "/" /\ next = "/"
          THEN IF afterScheme(out)
               THEN claimedScanFrom(line, i + 2, inStr, inBlock, out \o <<"/", "/">>)
               ELSE out
          ELSE IF ch = "/" /\ next = "*"
          THEN claimedScanFrom(line, i + 2, inStr, TRUE, out)
          ELSE IF ch \in StringQuotes
          THEN claimedScanFrom(line, i + 1, ch, inBlock, out)
          ELSE claimedScanFrom(line, i + 1, inStr, inBlock, Append(out, ch))

\* C14: outside strings and block comments the scanner stops at the first //
\* and emits nothing from there on, unless the text emitted so far ends with
\* http: or https:, in which case the // is emitted as ordinary characters and
\* the scan continues; a // inside a string or block comment never ends the line.
C14_LineComment ==
    op = "stripStringsAndLineComments" =>
        LET lines == split(code)
            entry == stateAfter(lines, Len(ret) - 1)
        IN  ret[Len(ret)] =
                claimedScanFrom(lines[Len(ret)], 0, entry.inStr, entry.inBlock, <<>>)

\* C25: for every CSS content and every rule r that parseCSS returns for it,
\* findCSSRule(r.selector) on the same content returns a span, and the span's
\* 0-based startLine and endLine are r.startLine and r.endLine.
C25_ExtractorLocatorAgree ==
    (op = "findCSSRule" /\ files[1].type = "css") =>
        /\ ret # Null
        /\ ret.startLine = args.startLine
        /\ ret.endLine = args.endLine

\* the offset in c of column col of line l (0-based)
OffsetOf(c, l, col) ==
    LET lines == split(c)
    IN  Len(join(SubSeq(lines, 1, l))) + (IF l > 0 THEN 1 ELSE 0)
        + Min(col, Len(lines[l + 1]))

\* C26: an 'append' in applyChanges adds newContent (reindented as every
\* insertion is) after the end of its target span, at endCol of the span's
\* last line, and leaves every character of the original buffer in place,
\* for single-line and for multi-line spans.
C26_AppendKeepsText ==
    op = "append" =>
        LET l == args.location
            p == OffsetOf(code, l.endLine, l.endCol)
        IN  ret = SubSeq(code, 1, p)
                  \o getIndentedContent(code, args.content, l.startLine)
                  \o SubSeq(code, p + 1, Len(code))

(***************************************************************************)
(* The spacing tool (spacingTool.run) and the endpoint that calls it.      *)
(* A JavaScript value is a record of its kind and of its text, String(v),  *)
(* so that typeof and truthiness are computed from the value.              *)
(***************************************************************************)
JsValue(kind, text) == [kind |-> kind, text |-> text]

JsString(s) == JsValue("string", s)

Undefined == JsValue("undefined", <<"u", "n", "d", "e", "f", "i", "n", "e", "d">>)

\* typeof v
typeof(v) == IF v.kind = "null" THEN "object" ELSE v.kind

\* !v
Falsy(v) ==
    \/ v.kind \in {"undefined", "null"}
    \/ v.kind = "string" /\ v.text = <<>>
    \/ v.kind = "number" /\ v.text \in {<<"0">>, <<"N", "a", "N">>}
    \/ v.kind = "boolean" /\ v.text = <<"f", "a", "l", "s", "e">>

\* s.toLowerCase()
toLowerCase(s) == [i \in 1..Len(s) |-> Lower(s[i])]

\* the regular expression class \w
IsWord(c) ==
    \/ Lower(c) \in {LowerCase[k] : k \in 1..26}
    \/ c \in {"0", "1", "2", "3", "4", "5", "6", "7", "8", "9", "_"}

\* the assertion \b at offset i of s
WordBoundary(s, i) ==
    (i > 0 /\ IsWord(s[i])) # (i < Len(s) /\ IsWord(s[i + 1]))

\* /\.x?html?$/i
HtmlExts ==
    {<<".", "h", "t", "m">>, <<".", "h", "t", "m", "l">>,
     <<".", "x", "h", "t", "m">>, <<".", "x", "h", "t", "m", "l">>}

\* the length of the sample isLikelyHtml reads, and the tag count it asks for
SampleLength == 2000
TagThreshold == 10

RECURSIVE countTags(_, _)
\* (sample.match(/<\w[\w-]*[^>]*>/g) || []).length, counted from offset i
countTags(sample, i) ==
    LET starts == {a \in i..(Len(sample) - 2) :
                      /\ sample[a + 1] = "<"
                      /\ IsWord(sample[a + 2])
                      /\ \E b \in (a + 3)..Len(sample) : sample[b] = ">"}
    IN  IF starts = {} THEN 0
        ELSE LET a == CHOOSE x \in starts : \A y \in starts : x <= y
                 b == CHOOSE x \in (a + 3)..Len(sample) :
                         /\ sample[x] = ">"
                         /\ \A y \in (a + 3)..(x - 1) : sample[y] # ">"
             IN  1 + countTags(sample, b)

S_doctype == <<"<", "!", "d", "o", "c", "t", "y", "p", "e">>
S_html == <<"h", "t", "m", "l">>
S_htmlOpen == <<"<", "h", "t", "m", "l">>

\* /<!doctype\s+html/.test(sample)
doctypeTest(sample) ==
    \E a \in 0..Len(sample) :
        /\ StartsWithAt(sample, a, S_doctype)
        /\ \E b \in (a + Len(S_doctype) + 1)..Len(sample) :
              /\ \A k \in (a + Len(S_doctype) + 1)..b : IsWs(sample[k])
              /\ StartsWithAt(sample, b, S_html)

\* /<html\b/.test(sample)
htmlTagTest(sample) ==
    \E a \in 0..Len(sample) :
        /\ StartsWithAt(sample, a, S_htmlOpen)
        /\ WordBoundary(sample, a + Len(S_htmlOpen))

\* isLikelyHtml(code, filename); filename is a JavaScript value
isLikelyHtml(c, filename) ==
    \/ /\ ~Falsy(filename)
       /\ \E ext \in HtmlExts : EndsWith(toLowerCase(filename.text), ext)
    \/ LET sample == toLowerCase(slice(c, 0, SampleLength))
       IN  \/ doctypeTest(sample)
           \/ htmlTagTest(sample)
           \/ countTags(sample, 0) >= TagThreshold

\* code.split(/\r?\n/): a carriage return before a line feed goes with it
splitLines(s) ==
    LET ls == split(s)
    IN  [k \in 1..Len(ls) |->
            IF k < Len(ls) /\ Len(ls[k]) > 0 /\ ls[k][Len(ls[k])] = "\r"
            THEN SubSeq(ls[k], 1, Len(ls[k]) - 1)
            ELSE ls[k]]

\* const two = "  "
two == <<" ", " ">>

RECURSIVE repeat(_, _)
\* s.repeat(n)
repeat(s, n) == IF n <= 0 THEN <<>> ELSE s \o repeat(s, n - 1)

\* a variant that leaves the tabs of a line in place
keepTabs(line) == line

RECURSIVE replaceTabs(_)
\* line.replace(/\t/g, two)
replaceTabs(line) ==
    IF Len(line) = 0 THEN <<>>
    ELSE (IF line[1] = "\t" THEN two ELSE <<line[1]>>) \o replaceTabs(Tail(line))

\* VOID_HTML
VOID_HTML ==
    {<<"a", "r", "e", "a">>, <<"b", "a", "s", "e">>, <<"b", "r">>,
     <<"c", "o", "l">>, <<"e", "m", "b", "e", "d">>, <<"h", "r">>,
     <<"i", "m", "g">>, <<"i", "n", "p", "u", "t">>, <<"l", "i", "n", "k">>,
     <<"m", "e", "t", "a">>, <<"p", "a", "r", "a", "m">>,
     <<"s", "o", "u", "r", "c", "e">>, <<"t", "r", "a", "c", "k">>,
     <<"w", "b", "r">>}

\* the class [a-zA-Z0-9-:] of the tag-name patterns
IsTagChar(c) ==
    \/ Lower(c) \in {LowerCase[k] : k \in 1..26}
    \/ c \in {"0", "1", "2", "3", "4", "5", "6", "7", "8", "9", "-", ":"}

\* the lengths k of a tag name that starts at offset i of s and ends at \b
TagNameLengths(s, i) ==
    {k \in 1..(Len(s) - i) :
        /\ \A j \in 1..k : IsTagChar(s[i + j])
        /\ WordBoundary(s, i + k)}

\* /^<\/[a-zA-Z0-9-:]+\b/.test(body)
closeTagTest(body) ==
    /\ StartsWithAt(body, 0, <<"<", "/">>)
    /\ TagNameLengths(body, 2) # {}

\* lc.match(/^<([a-z0-9-:]+)\b[^>]*>/): the lengths of group 1 that let the
\* rest of the pattern match
OpenTagLengths(lc) ==
    IF ~StartsWithAt(lc, 0, <<"<">>) THEN {}
    ELSE {k \in TagNameLengths(lc, 1) :
             /\ \A j \in 1..k : lc[1 + j] = Lower(lc[1 + j])
             /\ \E b \in (k + 2)..Len(lc) :
                   /\ lc[b] = ">"
                   /\ \A j \in (k + 2)..(b - 1) : lc[j] # ">"}

\* the post-line rule of an HTML line: does the line open an element
opensElement(body) ==
    LET lc == toLowerCase(body)
        ks == OpenTagLengths(lc)
    IN  /\ lc # <<>>
        /\ ~StartsWithAt(lc, 0, <<"<", "!">>)
        /\ ks # {}
        /\ ~EndsWith(lc, <<"/", ">">>)
        /\ LET k == CHOOSE x \in ks : \A y \in ks : y <= x
               tag == SubSeq(lc, 2, 1 + k)
           IN  tag \notin VOID_HTML /\ ~StartsWithAt(lc, 0, <<"<", "/">>)

\* /^(}|\]|\))/.test(body)
closeBracketTest(body) == Len(body) > 0 /\ body[1] \in {"}", "]", ")"}

\* (scan.match(/[{\[\(]/g) || []).length and the same for the closing ones
opens(scan) == Cardinality({i \in 1..Len(scan) : scan[i] \in {"{", "[", "("}})
closes(scan) == Cardinality({i \in 1..Len(scan) : scan[i] \in {"}", "]", ")"}})

\* the stats of a run in which nothing was counted
ZeroStats ==
    [tabsReplaced |-> 0, trailingSpacesTrimmed |-> 0, blankLinesRemoved |-> 0,
     indentChanges |-> 0]

\* the locals of normalizeIndent before its loop
LoopStart ==
    [indentLevel |-> 0, prevBlank |-> FALSE, stats |-> ZeroStats,
     state |-> FreshState, out |-> <<>>]

\* one pass of the loop of normalizeIndent over lines[idx], from the locals v
formatLine(raw, looksHtml, v) ==
    LET tabs == CountChar(raw, "\t")
        untabbed == replaceTabs(raw)
        line == TrimEnd(untabbed)
        trailing == Len(untabbed) - Len(line)
        originalLeadingLen == Len(LeadingWs(line))
        body == trim(line)
        counted == [v.stats EXCEPT !.tabsReplaced = @ + tabs,
                                   !.trailingSpacesTrimmed = @ + trailing]
    IN  IF body = <<>> /\ v.prevBlank
        THEN [v EXCEPT !.stats = [counted EXCEPT !.blankLinesRemoved = @ + 1]]
        ELSE
          LET dedentBefore == IF looksHtml THEN closeTagTest(body)
                                           ELSE closeBracketTest(body)
              level == IF dedentBefore THEN Max(0, v.indentLevel - 1)
                                       ELSE v.indentLevel
              intended == IF body = <<>> THEN <<>> ELSE repeat(two, level)
              newLine == IF body = <<>> THEN <<>> ELSE intended \o body
              changed == body # <<>> /\ Len(intended) # originalLeadingLen
              scanned == stripStringsAndLineComments(line, v.state)
              net == opens(scanned.out) - closes(scanned.out)
          IN  [indentLevel |->
                   IF looksHtml
                   THEN (IF opensElement(body) THEN level + 1 ELSE level)
                   ELSE (IF net > 0 THEN level + net ELSE level),
               prevBlank |-> (body = <<>>),
               stats |-> [counted EXCEPT !.indentChanges =
                                             IF changed THEN @ + 1 ELSE @],
               state |-> IF looksHtml THEN v.state ELSE scanned.state,
               out |-> Append(v.out, newLine)]

RECURSIVE formatLines(_, _, _, _)
\* the loop of normalizeIndent from index idx
formatLines(lines, idx, looksHtml, v) ==
    IF idx >= Len(lines) THEN v
    ELSE formatLines(lines, idx + 1, looksHtml,
                     formatLine(lines[idx + 1], looksHtml, v))

\* normalizeIndent(code, ctx); ctx.filename is a JavaScript value
normalizeIndent(c, filename) ==
    LET v == formatLines(splitLines(c), 0, isLikelyHtml(c, filename), LoopStart)
    IN  [code |-> join(v.out), stats |-> v.stats]

RECURSIVE replaceCrLf(_)
\* code.replace(/\r\n/g, "\n")
replaceCrLf(s) ==
    IF Len(s) = 0 THEN <<>>
    ELSE IF Len(s) > 1 /\ s[1] = "\r" /\ s[2] = "\n"
    THEN <<"\n">> \o replaceCrLf(SubSeq(s, 3, Len(s)))
    ELSE <<s[1]>> \o replaceCrLf(Tail(s))

RECURSIVE decimal(_)
\* `${n}` for a counter n
decimal(n) ==
    LET digit == <<"0", "1", "2", "3", "4", "5", "6", "7", "8", "9">>[(n % 10) + 1]
    IN  IF n < 10 THEN <<digit>> ELSE decimal(n \div 10) \o <<digit>>

\* n > 1 ? "s" : ""
plural(n) == IF n > 1 THEN <<"s">> ELSE <<>>

\* the arrow of the summary, U+2192, written as one character of the model
Arrow == "U+2192"

S_tab ==
    <<" ", "t", "a", "b">>

S_trimmed ==
    <<"t", "r", "i", "m", "m", "e", "d", " ">>

S_trailingSpace ==
    <<" ", "t", "r", "a", "i", "l", "i", "n", "g", " ", "s", "p", "a", "c",
     "e">>

S_removed ==
    <<"r", "e", "m", "o", "v", "e", "d", " ">>

S_extraBlankLine ==
    <<" ", "e", "x", "t", "r", "a", " ", "b", "l", "a", "n", "k", " ", "l",
     "i", "n", "e">>

S_adjusted ==
    <<"a", "d", "j", "u", "s", "t", "e", "d", " ", "i", "n", "d", "e", "n",
     "t", "a", "t", "i", "o", "n", " ", "o", "n", " ">>

S_line ==
    <<" ", "l", "i", "n", "e">>

S_spaces ==
    <<" ", "s", "p", "a", "c", "e", "s">>

S_noChanges ==
    <<"N", "o", " ", "s", "p", "a", "c", "i", "n", "g", " ", "o", "r", " ",
     "i", "n", "d", "e", "n", "t", "a", "t", "i", "o", "n", " ", "c", "h",
     "a", "n", "g", "e", "s", " ", "w", "e", "r", "e", " ", "n", "e", "c",
     "e", "s", "s", "a", "r", "y", ".">>

S_notAString ==
    <<"I", "n", "p", "u", "t", " ", "w", "a", "s", " ", "n", "o", "t", " ",
     "a", " ", "s", "t", "r", "i", "n", "g", ".">>

S_mustBeString ==
    <<"s", "p", "a", "c", "e", "-", "f", "o", "r", "m", "a", "t", "t", "e",
     "r", ":", " ", "i", "n", "p", "u", "t", " ", "c", "o", "d", "e", " ",
     "m", "u", "s", "t", " ", "b", "e", " ", "a", " ", "s", "t", "r", "i",
     "n", "g", ".">>

S_codeRequired ==
    <<"C", "o", "d", "e", " ", "i", "s", " ", "r", "e", "q", "u", "i", "r",
     "e", "d", " ", "a", "n", "d", " ", "m", "u", "s", "t", " ", "b", "e",
     " ", "a", " ", "s", "t", "r", "i", "n", "g">>

RECURSIVE joinWith(_, _)
\* parts.join(sep)
joinWith(parts, sep) ==
    IF Len(parts) = 0 THEN <<>>
    ELSE IF Len(parts) = 1 THEN parts[1]
    ELSE parts[1] \o sep \o joinWith(Tail(parts), sep)

\* the parts of the summary, in the order run pushes them
summaryParts(stats) ==
    (IF stats.tabsReplaced # 0
     THEN <<decimal(stats.tabsReplaced) \o S_tab \o plural(stats.tabsReplaced)
            \o <<" ", Arrow>> \o S_spaces>>
     ELSE <<>>)
    \o (IF stats.trailingSpacesTrimmed # 0
        THEN <<S_trimmed \o decimal(stats.trailingSpacesTrimmed)
               \o S_trailingSpace \o plural(stats.trailingSpacesTrimmed)>>
        ELSE <<>>)
    \o (IF stats.blankLinesRemoved # 0
        THEN <<S_removed \o decimal(stats.blankLinesRemoved)
               \o S_extraBlankLine \o plural(stats.blankLinesRemoved)>>
        ELSE <<>>)
    \o (IF stats.indentChanges # 0
        THEN <<S_adjusted \o decimal(stats.indentChanges)
               \o S_line \o plural(stats.indentChanges)>>
        ELSE <<>>)

\* what run returns for a value that is not a string
FailureResult ==
    [code |-> <<>>, summary |-> S_notAString, stats |-> ZeroStats,
     warnings |-> <<S_mustBeString>>]

\* run(code, ctx): code and ctx.filename are JavaScript values
run(v, filename) ==
    IF typeof(v) # "string" THEN FailureResult
    ELSE LET r == normalizeIndent(replaceCrLf(v.text), filename)
             parts == summaryParts(r.stats)
         IN  [code |-> r.code,
              summary |-> IF Len(parts) # 0 THEN joinWith(parts, <<",", " ">>)
                                            ELSE S_noChanges,
              stats |-> r.stats,
              warnings |-> <<>>]

\* the statuses the spacing endpoint answers with
BadRequest == 400
Ok == 200

\* app.post("/api/tools/spacing"): the response and the calls of the tool,
\* for a request body {code, filename}; run does not throw, so the catch
\* branch is not taken
postSpacing(v, filename) ==
    IF Falsy(v) \/ typeof(v) # "string"
    THEN [response |-> [status |-> BadRequest, json |-> [message |-> S_codeRequired]],
          calls |-> <<>>]
    ELSE LET result == run(v, filename)
         IN  [response |-> [status |-> Ok, json |-> result],
              calls |-> <<result>>]

(***************************************************************************)
(* SpecSpacing: one value handed to spacingTool.run, or posted as the code *)
(* field of a request to /api/tools/spacing.                               *)
(***************************************************************************)
MaxSpacingLines == 2

T_blank == <<>>
T_open == <<"a", " ", "{">>
T_close == <<"}">>
T_tab == <<"\t", "b", "(", " ">>
T_openTwo == <<"f", "o", "o", "(", "{">>
T_closeTwo == <<"}", ")">>
T_cr == <<" ", " ", "c", ";", "\r">>
T_div == <<"<", "d", "i", "v", ">">>
T_endDiv == <<"<", "/", "d", "i", "v", ">">>
T_str == <<"s", " ", "=", " ", "'", "{", "'", " ", "/", "/", " ", "[">>

T_tabInside == <<"d", "\t", "e">>

SpacingLines ==
    {T_blank, T_open, T_close, T_tab, T_openTwo, T_closeTwo, T_cr, T_div,
     T_endDiv, T_str, T_tabInside}

SpacingTexts == {join(ls) : ls \in SeqsUpTo(SpacingLines, MaxSpacingLines)}

\* values that are not strings: undefined, null, 0, 7, true, {}
NonStrings ==
    {Undefined,
     JsValue("null", <<"n", "u", "l", "l">>),
     JsValue("number", <<"0">>),
     JsValue("number", <<"7">>),
     JsValue("boolean", <<"t", "r", "u", "e">>),
     JsValue("object", <<"[", "o", "b", "j", "e", "c", "t", " ", "O", "b", "j", "e", "c", "t", "]">>)}

SpacingValues == {JsString(t) : t \in SpacingTexts} \cup NonStrings

\* ctx.filename: absent, a script, a page
Filenames == {Undefined, JsString(<<"a", ".", "j", "s">>), JsString(<<"a", ".", "h", "t", "m", "l">>)}

\* code is the value under study; ret holds the results of the calls of run,
\* sent the responses of the endpoint
InitSpacing ==
    /\ code \in SpacingValues
    /\ op = "new"
    /\ args = Undefined
    /\ ret = <<>>
    /\ WorkshopIdle

\* spacingTool.run(code, {filename})
Run ==
    /\ op = "new"
    /\ \E filename \in Filenames :
          /\ args' = filename
          /\ ret' = <<run(code, filename)>>
    /\ op' = "run"
    /\ UNCHANGED <<code, workshopVars>>

\* POST /api/tools/spacing with the body {code, filename}
PostSpacing ==
    /\ op = "new"
    /\ \E filename \in Filenames :
          LET r == postSpacing(code, filename)
          IN  /\ args' = filename
              /\ ret' = r.calls
              /\ sent' = <<r.response>>
    /\ op' = "post"
    /\ UNCHANGED <<code, files, selectedResources, manualResources,
                   detectedResources>>

NextSpacing == Run \/ PostSpacing

SpecSpacing == InitSpacing /\ [][NextSpacing]_vars

\* C20: a value that is not a string is rejected without being formatted
\* (run returns the failure result: code '', summary 'Input was not a
\* string.', all stats zero, one warning; the endpoint answers 400 and does
\* not call the tool), while every string, the empty one included, is
\* processed: run returns the formatted text without warnings, and the
\* endpoint calls the tool once and answers with its result.
C20_NonStringRejected ==
    /\ (op = "run" /\ typeof(code) # "string") =>
          /\ Len(ret) = 1
          /\ ret[1].code = <<>>
          /\ ret[1].summary = S_notAString
          /\ \A f \in DOMAIN ret[1].stats : ret[1].stats[f] = 0
          /\ Len(ret[1].warnings) = 1
    /\ (op = "post" /\ typeof(code) # "string") =>
          /\ sent[1].status = BadRequest
          /\ ret = <<>>
    /\ (op = "run" /\ typeof(code) = "string") =>
          /\ Len(ret) = 1
          /\ ret[1].warnings = <<>>
          /\ ret[1].code = normalizeIndent(replaceCrLf(code.text), args).code
    /\ (op = "post" /\ typeof(code) = "string") =>
          /\ Len(ret) = 1
          /\ ret[1].warnings = <<>>
          /\ sent[1].status = Ok
          /\ sent[1].json = ret[1]

(***************************************************************************)
(* SpecIndent: the loop of normalizeIndent over a script, one line a step. *)
(***************************************************************************)
MaxIndentLines == 3

\* "a {", "}", "foo({", "})", "c;"
IndentLines == {T_open, T_close, T_openTwo, T_closeTwo, <<"c", ";">>}

IndentTexts == {join(ls) : ls \in SeqsUpTo(IndentLines, MaxIndentLines)}

\* args holds the locals of the loop, ret the index idx
InitIndent ==
    /\ code \in IndentTexts
    /\ op = "new"
    /\ args = LoopStart
    /\ ret = 0
    /\ WorkshopIdle

\* one pass of the for loop of normalizeIndent
FormatLine ==
    /\ ret < Len(splitLines(code))
    /\ args' = formatLine(splitLines(code)[ret + 1], isLikelyHtml(code, Undefined), args)
    /\ ret' = ret + 1
    /\ op' = "normalizeIndent"
    /\ UNCHANGED <<code, workshopVars>>

NextIndent == FormatLine

SpecIndent == InitIndent /\ [][NextIndent]_vars

\* opening minus closing brackets of a line
NetOf(line) == opens(line) - closes(line)

RECURSIVE DepthAfter(_, _)
\* the bracket depth after the first n lines
DepthAfter(lines, n) ==
    IF n = 0 THEN 0 ELSE DepthAfter(lines, n - 1) + NetOf(lines[n])

\* the brackets are balanced, and a line that closes brackets starts with
\* them and opens none
BalancedClosersFirst(lines) ==
    /\ \A n \in 0..Len(lines) : DepthAfter(lines, n) >= 0
    /\ DepthAfter(lines, Len(lines)) = 0
    /\ \A n \in 1..Len(lines) :
          closes(lines[n]) > 0 =>
              /\ opens(lines[n]) = 0
              /\ \A k \in 1..closes(lines[n]) : lines[n][k] \in {"}", "]", ")"}

\* the line that opened the block which line n closes
OpenerOf(lines, n) ==
    CHOOSE j \in 1..(n - 1) :
        /\ DepthAfter(lines, j - 1) <= DepthAfter(lines, n)
        /\ \A i \in (j + 1)..(n - 1) : DepthAfter(lines, i - 1) > DepthAfter(lines, n)

\* C27: on non-HTML code the indent level is never negative; on input whose
\* brackets are balanced and whose closing brackets start their line, a line
\* that closes a block is emitted with the indentation of the line that
\* opened it, and the level is 0 again after the last line; also when a line
\* such as 'foo({' opens several brackets that one line '})' closes.
C27_IndentBalance ==
    LET lines == splitLines(code)
    IN  /\ args.indentLevel >= 0
        /\ BalancedClosersFirst(lines) =>
              /\ \A n \in 1..ret :
                    closes(lines[n]) > 0 =>
                        Len(LeadingWs(args.out[n]))
                            = Len(LeadingWs(args.out[OpenerOf(lines, n)]))
              /\ ret = Len(lines) => args.indentLevel = 0

\* C28: for every string input the formatted code holds no tab, no line that
\* ends in whitespace and no two blank lines in a row, every non-blank line
\* starts with an even number of spaces, the output has as many lines as the
\* input less stats.blankLinesRemoved, and the summary is 'No spacing or
\* indentation changes were necessary.' exactly when the four counters are 0.
C28_NormalForm ==
    (op = "run" /\ typeof(code) = "string") =>
        LET r == ret[1]
            outLines == split(r.code)
        IN  /\ \A i \in 1..Len(r.code) : r.code[i] # "\t"
            /\ \A k \in 1..Len(outLines) :
                  outLines[k] # <<>> =>
                      /\ ~IsWs(outLines[k][Len(outLines[k])])
                      /\ \A i \in 1..Len(LeadingWs(outLines[k])) : outLines[k][i] = " "
                      /\ Len(LeadingWs(outLines[k])) % 2 = 0
            /\ \A k \in 1..(Len(outLines) - 1) :
                  ~(outLines[k] = <<>> /\ outLines[k + 1] = <<>>)
            /\ Len(outLines) = Len(split(code.text)) - r.stats.blankLinesRemoved
            /\ (r.summary = S_noChanges)
                  <=> (\A f \in DOMAIN r.stats : r.stats[f] = 0)

\* run formatted a string with a tab inside a line, trailing whitespace and a
\* wrong indentation
C28_Witness ==
    /\ op = "run"
    /\ typeof(code) = "string"
    /\ Includes(code.text, T_tabInside)
    /\ ret[1].stats.tabsReplaced > 0
    /\ ret[1].stats.trailingSpacesTrimmed > 0
    /\ ret[1].stats.indentChanges > 0
    /\ ret[1].code # code.text

(***************************************************************************)
(* MemStorage: the projects Map, and the project routes that call it.      *)
(* An object is a function from its field names to their values; code      *)
(* holds this.projects and the number of identifiers randomUUID has given. *)
(***************************************************************************)
MaxProjects == 2

\* the identifiers randomUUID returns, in the order it returns them
Uuids == <<"id1", "id2">>

\* the identifiers a request can name: the generated ones and a foreign one
RequestIds == {"id1", "id2", "id9"}

ProjectNames == {"n1", "n2"}

\* the time of a call; the value of new Date() is not told apart
Now == "now"

\* {...a, ...b}
spread(a, b) ==
    [f \in DOMAIN a \cup DOMAIN b |-> IF f \in DOMAIN b THEN b[f] ELSE a[f]]

\* the empty Map
NoProjects == [k \in {} |-> <<>>]

\* Map.prototype.set(k, v)
mapSet(m, k, v) == [x \in DOMAIN m \cup {k} |-> IF x = k THEN v ELSE m[x]]

\* Map.prototype.delete(k)
mapDelete(m, k) == [x \in DOMAIN m \ {k} |-> m[x]]

\* the bodies PATCH /api/projects/:id passes on: any of the fields, any value
UpdateBodies ==
    {[f \in fs |-> IF f = "id" THEN i ELSE n] :
        fs \in SUBSET {"id", "name"}, i \in RequestIds, n \in ProjectNames}

\* updateProject(id, updates): the Map afterwards and the value returned
updateProject(projects, id, updates) ==
    IF id \notin DOMAIN projects THEN [projects |-> projects, ret |-> Undefined]
    ELSE LET updated == spread(spread(projects[id], updates), [updatedAt |-> Now])
         IN  [projects |-> mapSet(projects, id, updated), ret |-> updated]

\* createProject(insertProject) with the identifier randomUUID returned
createProject(projects, insertProject, id) ==
    LET project == spread(insertProject,
                          [id |-> id, userId |-> "null", createdAt |-> Now,
                           updatedAt |-> Now])
    IN  [projects |-> mapSet(projects, id, project), ret |-> project]

InitStore ==
    /\ code = [projects |-> NoProjects, uuids |-> 0]
    /\ op = "new"
    /\ args = <<>>
    /\ ret = <<>>
    /\ WorkshopIdle

\* POST /api/projects: storage.createProject(projectData)
CreateProject ==
    /\ code.uuids < MaxProjects
    /\ \E name \in ProjectNames :
          LET r == createProject(code.projects, [name |-> name], Uuids[code.uuids + 1])
          IN  /\ code' = [projects |-> r.projects, uuids |-> code.uuids + 1]
              /\ args' = <<[name |-> name]>>
              /\ ret' = r.ret
    /\ op' = "createProject"
    /\ UNCHANGED workshopVars

\* PATCH /api/projects/:id: storage.updateProject(req.params.id, req.body)
UpdateProject ==
    /\ \E id \in RequestIds, updates \in UpdateBodies :
          LET r == updateProject(code.projects, id, updates)
          IN  /\ code' = [code EXCEPT !.projects = r.projects]
              /\ args' = <<id, updates>>
              /\ ret' = r.ret
    /\ op' = "updateProject"
    /\ UNCHANGED workshopVars

\* DELETE /api/projects/:id: storage.deleteProject(req.params.id)
DeleteProject ==
    /\ \E id \in RequestIds :
          /\ code' = [code EXCEPT !.projects = mapDelete(code.projects, id)]
          /\ args' = <<id>>
          /\ ret' = (id \in DOMAIN code.projects)
    /\ op' = "deleteProject"
    /\ UNCHANGED workshopVars

NextStore == CreateProject \/ UpdateProject \/ DeleteProject

SpecStore == InitStore /\ [][NextStore]_vars

\* getProject(id)
getProject(projects, id) == IF id \in DOMAIN projects THEN projects[id] ELSE Undefined

\* C29: after any sequence of createProject, updateProject and deleteProject
\* every project stored under key k has id k, so getProject(k) never returns
\* a project with another id; updateProject on an unknown id returns
\* undefined and creates nothing.
C29_ProjectIdentity ==
    /\ \A k \in DOMAIN code.projects : getProject(code.projects, k).id = k
    /\ (op = "updateProject" /\ ret = Undefined) =>
          args[1] \notin DOMAIN code.projects


(***************************************************************************)
(* The hub and its in-process workshops: useWorkshopMessage,               *)
(* CodeMasterHub's state and handlers, CSSWorkshop.handleApplyChanges.     *)
(***************************************************************************)
\* the hub's own window, the one whose 'message' events handleMessage hears
Window == "window"

\* useWorkshopMessage.sendMessage(iframe, message): the post it makes, as
\* [to, data], or Null when iframe?.contentWindow is missing (iframe is null, or
\* a frame that has no window)
sendMessage(iframe, message) ==
    IF iframe # Null /\ "contentWindow" \in DOMAIN iframe
    THEN [to |-> iframe.contentWindow, data |-> message]
    ELSE Null

\* the queue of 'message' events of the hub's window after that post
posted(inbox, post) ==
    IF post # Null /\ post.to = Window THEN Append(inbox, post.data) ELSE inbox

\* handleMessage's test: event.data && typeof event.data === 'object' && event.data.type
hasType(data) == data # Null /\ "type" \in DOMAIN data /\ data.type # ""

\* message.data?.code, truthy
carriesCode(message) ==
    /\ "data" \in DOMAIN message
    /\ message.data # Null
    /\ "code" \in DOMAIN message.data
    /\ message.data.code # <<>>

S_unknown == "unknown"

S_codeModified == "Code modified"

\* the change record handleWorkshopMessage appends
patchChange(message) ==
    [type |-> "modified", line |-> 0, content |-> "Code updated by workshop",
     tool |-> IF "workshopId" \in DOMAIN message /\ message.workshopId # ""
              THEN message.workshopId ELSE S_unknown,
     description |-> IF "summary" \in DOMAIN message.data
                     THEN message.data.summary ELSE S_codeModified]

\* handleWorkshopMessage on the hub's state [currentCode, originalCode, changes]
handleWorkshopMessage(hub, message) ==
    IF message.type = "WORKSHOP_APPLY_PATCH" /\ carriesCode(message)
    THEN [currentCode |-> message.data.code,
          originalCode |-> hub.currentCode,
          changes |-> Append(hub.changes, patchChange(message))]
    ELSE hub

\* useWorkshopMessage.handleMessage: onMessage is called for typed objects only
handleMessage(hub, data) ==
    IF hasType(data) THEN handleWorkshopMessage(hub, data) ELSE hub

\* files.find(f => f.name === name), Null when there is none
findFileByName(fs, name) ==
    IF \E k \in 1..Len(fs) : fs[k].name = name
    THEN fs[CHOOSE k \in 1..Len(fs) :
              fs[k].name = name /\ \A j \in 1..(k - 1) : fs[j].name # name]
    ELSE Null

\* files.find(f => f.id === id), Null when there is none
findFileById(fs, id) ==
    IF \E k \in 1..Len(fs) : fs[k].id = id
    THEN fs[CHOOSE k \in 1..Len(fs) :
              fs[k].id = id /\ \A j \in 1..(k - 1) : fs[j].id # id]
    ELSE Null

\* the workshop's cssRules: parseCSSFromFiles(files), each rule with the id of
\* the first file of its name
cssRules(fs) ==
    LET rules == parseCSSFromFiles(fs)
    IN  [k \in 1..Len(rules) |->
            [selector |-> rules[k].selector, fileName |-> rules[k].fileName,
             startLine |-> rules[k].startLine, endLine |-> rules[k].endLine,
             fileId |-> LET f == findFileByName(fs, rules[k].fileName)
                        IN  IF f = Null THEN S_unknown ELSE f.id]]

\* str.replace(pattern, replacement) with a string pattern: the first
\* occurrence only
replaceFirst(s, pattern, replacement) ==
    LET at == {i \in 0..(Len(s) - Len(pattern)) : StartsWithAt(s, i, pattern)}
    IN  IF at = {} THEN s
        ELSE LET i == CHOOSE x \in at : \A y \in at : x <= y
             IN  SubSeq(s, 1, i) \o replacement
                 \o SubSeq(s, i + Len(pattern) + 1, Len(s))

\* the replacer handleApplyChanges gives to content.replace(styleRegex, ...)
replaceInStyle(match, cssContent, selectedRule, editedCSS) ==
    LET ruleLocation == findCSSRule(cssContent, selectedRule)
    IN  IF ruleLocation # Null
        THEN replaceFirst(match, cssContent,
                          replaceAtLocation(cssContent, ruleLocation, editedCSS))
        ELSE match

RECURSIVE replaceStyleBlocks(_, _, _, _)
\* targetFile.content.replace(styleRegex, replacer), from lastIndex i
replaceStyleBlocks(content, i, selectedRule, editedCSS) ==
    LET starts == {k \in i..(Len(content) - 1) : styleRegexAt(content, k) # Null}
    IN  IF starts = {} THEN SubSeq(content, i + 1, Len(content))
        ELSE LET m == styleRegexAt(content,
                          CHOOSE k \in starts : \A j \in starts : k <= j)
             IN  SubSeq(content, i + 1, m.index)
                 \o replaceInStyle(SubSeq(content, m.index + 1, m.end), m.css,
                                   selectedRule, editedCSS)
                 \o replaceStyleBlocks(content, m.end, selectedRule, editedCSS)

\* modifiedContent of handleApplyChanges for the target file
modifiedContent(targetFile, selectedRule, editedCSS) ==
    IF targetFile.type = "css"
    THEN LET ruleLocation == findCSSRule(targetFile.content, selectedRule)
         IN  IF ruleLocation # Null
             THEN replaceAtLocation(targetFile.content, ruleLocation, editedCSS)
             ELSE targetFile.content
    ELSE IF targetFile.type = "html"
    THEN replaceStyleBlocks(targetFile.content, 0, selectedRule, editedCSS)
    ELSE targetFile.content

S_updated == "CSS rule S updated with preserved structure"

\* the message handleApplyChanges passes to sendMessage
applyChangesMessage(targetRule, targetFile, selectedRule, editedCSS) ==
    [type |-> "WORKSHOP_APPLY_PATCH", workshopId |-> "css-workshop",
     data |-> [code |-> modifiedContent(targetFile, selectedRule, editedCSS),
               summary |-> [text |-> S_updated, S |-> selectedRule],
               changes |-> <<[type |-> "replace",
                              description |-> [text |-> "Updated S in F",
                                               S |-> selectedRule,
                                               F |-> targetFile.name],
                              location |-> [text |-> "Line A-B",
                                            A |-> targetRule.startLine,
                                            B |-> targetRule.endLine]]>>]]

\* cssRules.find(rule => rule.selector === selectedRule), Null when there is none
findRule(rules, selectedRule) ==
    LET hits == {k \in 1..Len(rules) : rules[k].selector = selectedRule}
    IN  IF hits = {} THEN Null
        ELSE rules[CHOOSE k \in hits : \A j \in hits : k <= j]

\* handleApplyChanges with the workshop's cssRules, files, selectedRule and
\* editedCSS: the messages it passes to sendMessage (none on an early return)
handleApplyChanges(rules, fs, selectedRule, editedCSS) ==
    LET targetRule == findRule(rules, selectedRule)
    IN  IF selectedRule = <<>> \/ editedCSS = <<>> \/ targetRule = Null THEN <<>>
        ELSE LET targetFile == findFileById(fs, targetRule.fileId)
             IN  IF targetFile = Null THEN <<>>
                 ELSE <<applyChangesMessage(targetRule, targetFile,
                                            selectedRule, editedCSS)>>

(***************************************************************************)
(* SpecHub: uploads, editor input, the CSS and Prefetch workshops' apply   *)
(* buttons, and 'message' events on the hub's window.  code is the hub's   *)
(* [currentCode, originalCode, changes], files its project files, sent the *)
(* messages handed to sendMessage, ret the window's pending events.        *)
(***************************************************************************)
MaxUploads == 2

MaxApplies == 2

MaxChanges == 1

\* two rules on one line: "p { c: d; } q { c: d; }"
L_pq ==
    <<"p", " ", "{", " ", "c", ":", " ", "d", ";", " ", "}", " ", "q", " ",
     "{", " ", "c", ":", " ", "d", ";", " ", "}">>

\* the text the user leaves in the rule editor, after the selector
S_edit ==
    <<" ", "{", "\n", " ", " ", "k", ":", " ", "v", ";", "\n", "}">>

HubFile(id, n, t, c) == [id |-> id, name |-> n, type |-> t, content |-> c]

\* the files the user picks: a.css with one rule over three lines, b.css with
\* two rules on one line, i.html with a head, a <style> block and a bare URL
PickedFiles ==
    { ProjectFile("a.css", "css", join(<<L_body, L_color, L_close>>)),
      ProjectFile("b.css", "css", L_pq),
      ProjectFile("i.html", "html",
                  join(<<S_headOpen \o <<">">>, L_style, L_x, L_endStyle,
                         S_headClose, U_detected>>)) }

\* what the user types into the main editor: a.css with a rule added, and a
\* buffer typed from scratch
EditorValues == {join(<<L_body, L_color, L_close, L_x>>), L_x}

\* what another window posts to the hub's window
FrameMessages ==
    { [type |-> "WORKSHOP_READY", workshopId |-> "frame"],
      [type |-> "WORKSHOP_APPLY_PATCH", workshopId |-> "", data |-> [code |-> L_x]],
      [type |-> "WORKSHOP_APPLY_PATCH", workshopId |-> "frame",
       data |-> [code |-> <<>>, summary |-> "s"]],
      [source |-> "frame"] }

InitHub ==
    /\ code = [currentCode |-> <<>>, originalCode |-> <<>>, changes |-> <<>>]
    /\ files = NoFiles
    /\ selectedResources = <<>>
    /\ manualResources = <<>>
    /\ detectedResources = <<>>
    /\ sent = <<>>
    /\ op = "new"
    /\ args = <<>>
    /\ ret = <<>>

HandleFilesUploaded ==
    /\ Len(files) < MaxUploads
    /\ \E f \in PickedFiles :
          LET newFiles == <<HubFile(Len(files) + 1, f.name, f.type, f.content)>>
          IN  /\ files' = files \o newFiles
              /\ code' = [code EXCEPT !.currentCode = newFiles[1].content,
                                      !.originalCode = newFiles[1].content]
              /\ detectedResources' = detectResources(files \o newFiles)
              /\ args' = <<newFiles[1].content>>
    /\ selectedResources' = <<>>
    /\ op' = "handleFilesUploaded"
    /\ UNCHANGED <<ret, manualResources, sent>>

\* the main editor's onChange={(e) => setCurrentCode(e.target.value)}
EditorChange ==
    /\ \E value \in EditorValues :
          /\ value # code.currentCode
          /\ code' = [code EXCEPT !.currentCode = value]
          /\ args' = <<value>>
    /\ op' = "onChange"
    /\ UNCHANGED <<ret, workshopVars>>

\* the window's event queue after sendMessage(iframe, message) for the messages
\* a handler passes
postAll(inbox, iframe, messages) ==
    IF messages = <<>> THEN inbox
    ELSE posted(inbox, sendMessage(iframe, messages[1]))

\* the rule editor's text: empty, or the selector and the user's block
editedOf(selectedRule, edit) ==
    IF edit = <<>> THEN <<>> ELSE selectedRule \o edit

\* the effects of a click on Apply that passes messages to sendMessage(null, ...)
Applied(selectedRule, editedCSS, messages) ==
    /\ args' = <<selectedRule, editedCSS>>
    /\ sent' = sent \o messages
    /\ ret' = postAll(ret, Null, messages)

\* the CSS workshop: a rule of the list is selected, the rule editor holds
\* editedCSS, Apply is clicked
HandleApplyChanges ==
    /\ Len(sent) < MaxApplies
    /\ \E rules \in {cssRules(files)} :
          \E k \in 1..Len(rules), edit \in {<<>>, S_edit} :
             \E editedCSS \in {editedOf(rules[k].selector, edit)} :
                \E messages \in {handleApplyChanges(rules, files,
                                                    rules[k].selector, editedCSS)} :
                   Applied(rules[k].selector, editedCSS, messages)
    /\ op' = "handleApplyChanges"
    /\ UNCHANGED <<code, files, selectedResources, manualResources, detectedResources>>

\* a window that holds a reference to the hub's window posts to it
PostMessage ==
    /\ Len(code.changes) + Len(ret) < MaxChanges
    /\ \E data \in FrameMessages :
          /\ ret' = Append(ret, data)
    /\ args' = <<>>
    /\ op' = "postMessage"
    /\ UNCHANGED <<code, workshopVars>>

\* the window dispatches its oldest pending 'message' event
HandleMessage ==
    /\ ret # <<>>
    /\ code' = handleMessage(code, Head(ret))
    /\ ret' = Tail(ret)
    /\ args' = <<>>
    /\ op' = "handleMessage"
    /\ UNCHANGED workshopVars

NextHub ==
    \/ HandleFilesUploaded
    \/ EditorChange
    \/ HandleApplyChanges
    \/ ToggleResource
    \/ HandleApplyAll
    \/ PostMessage
    \/ HandleMessage

SpecHub == InitHub /\ [][NextHub]_vars

\* the browser's event loop dispatches every event that is queued
SpecHubLive == SpecHub /\ WF_vars(HandleMessage)

\* the patch of the n-th apply has just been handled: its code is the editor's
\* buffer and the last change record is the one made from it
Handled(n) ==
    /\ Len(sent) >= n
    /\ op = "handleMessage"
    /\ code.currentCode = sent[n].data.code
    /\ code.changes # <<>>
    /\ code.changes[Len(code.changes)] = patchChange(sent[n])

\* the last step was a click on Apply, in the CSS workshop or in the Prefetch
\* workshop, that passed a message to sendMessage (apply leaves the workshop's
\* files and selection as they were)
JustApplied ==
    \/ /\ op = "handleApplyChanges"
       /\ handleApplyChanges(cssRules(files), files, args[1], args[2]) # <<>>
    \/ /\ op = "handleApplyAll"
       /\ generatedTags # <<>>
       /\ Len(selectedResources) # 0

\* the step is the hub handling a WORKSHOP_APPLY_PATCH that carries code
HandlesPatch ==
    /\ op' = "handleMessage"
    /\ ret # <<>>
    /\ hasType(Head(ret))
    /\ Head(ret).type = "WORKSHOP_APPLY_PATCH"
    /\ carriesCode(Head(ret))

\* C21: every message a workshop's apply hands to sendMessage is eventually
\* handled by the hub as a WORKSHOP_APPLY_PATCH with that code, and the handling
\* of a patch makes its code the current buffer, keeps the previous buffer as
\* the original and appends one change record.
C21_ApplyReachesEditor ==
    /\ \A n \in 1..MaxApplies : (JustApplied /\ Len(sent) = n) ~> Handled(n)
    /\ [][HandlesPatch =>
            /\ code'.currentCode = Head(ret).data.code
            /\ code'.originalCode = code.currentCode
            /\ Len(code'.changes) = Len(code.changes) + 1
            /\ SubSeq(code'.changes, 1, Len(code.changes)) = code.changes]_vars

\* the step is a click on the CSS workshop's Apply that passes a message
AppliesChanges == op' = "handleApplyChanges" /\ Len(sent') > Len(sent)

\* the file the CSS workshop's Apply splices for the selected rule
targetFileOf(fs, selectedRule) ==
    findFileById(fs, findRule(cssRules(fs), selectedRule).fileId)

\* C22: the code the CSS workshop sends back is the editor's current buffer
\* with the selected rule replaced by the edited text: the workshop's target
\* file, read with the buffer as its content, gives the same result.
C22_NoStaleBuffer ==
    [][AppliesChanges =>
         sent'[Len(sent')].data.code =
             modifiedContent([targetFileOf(files, args'[1])
                                 EXCEPT !.content = code.currentCode],
                             args'[1], args'[2])]_vars

RECURSIVE styleBlocksFrom(_, _)
\* the texts of the <style> blocks of content, from offset i
styleBlocksFrom(content, i) ==
    LET starts == {k \in i..(Len(content) - 1) : styleRegexAt(content, k) # Null}
    IN  IF starts = {} THEN <<>>
        ELSE LET m == styleRegexAt(content,
                          CHOOSE k \in starts : \A j \in starts : k <= j)
             IN  <<m.css>> \o styleBlocksFrom(content, m.end)

\* findCSSRule returns null for the selector in the file, or in every <style>
\* block of an HTML file
ruleNotFound(file, selector) ==
    IF file.type = "css" THEN findCSSRule(file.content, selector) = Null
    ELSE LET blocks == styleBlocksFrom(file.content, 0)
         IN  \A k \in 1..Len(blocks) : findCSSRule(blocks[k], selector) = Null

\* C24: when findCSSRule finds no span for the selected rule in the target
\* file, the CSS workshop's Apply passes no WORKSHOP_APPLY_PATCH whose summary
\* says the rule was updated while its code is the file's unmodified content.
C24_NotFoundNotSuccess ==
    [][(AppliesChanges /\ ruleNotFound(targetFileOf(files, args'[1]), args'[1])) =>
         ~ /\ sent'[Len(sent')].type = "WORKSHOP_APPLY_PATCH"
           /\ sent'[Len(sent')].data.summary.text = S_updated
           /\ sent'[Len(sent')].data.code =
                  targetFileOf(files, args'[1]).content]_vars

=============================================================================
